---- MODULE Spec2Model ----
(***************************************************************************)
(* Exam auto-apply bot: the session-scoped browser automation orchestrator.*)
(*                                                                         *)
(* Three servers of the repository are modelled, each under its own        *)
(* specification over the same variables:                                  *)
(*   SpecReg  stagehand-backend: SessionManager (sessions.ts) driven by    *)
(*            the routes of routes/api.ts, with the idle sweep;            *)
(*            SpecSweep, FairSpecIdle, SpecFill and SpecShutdown are the   *)
(*            same routes with the sweep, the field loop and closeAll;     *)
(*   SpecWs   stagehand-backend: WebSocketManager (websocket.ts);          *)
(*   SpecWf   the WebSocket workflow server (server.ts + workflow.ts of    *)
(*            the OTP demo): FORM_SUBMIT / OTP_SUBMIT and runWorkflow.     *)
(* Every await of the source is a step boundary: the code between two      *)
(* awaits runs atomically on Node's single thread.                         *)
(***************************************************************************)
EXTENDS Integers, Sequences, FiniteSets, TLC

(* ------------------------------ bounds --------------------------------- *)
\* clock ticks the model lets pass
MaxTicks == 4
\* automation handles (new Stagehand) ever constructed
MaxHandles == 2
\* fields of one fill-form request whose report is examined
MaxFields == 2
\* events published through the broadcaster
MaxPub == 3

Ids == {"s1", "s2"}
Reqs == {"r1", "r2"}
Chans == {"w1", "w2"}
Conns == {"c1", "c2"}
Otps == {"123456", "654321"}
\* fields.length of the fill-form requests that race with other requests
ShortForms == {0, 1}

(* ------------------------- program constants --------------------------- *)
\* one tick of the model clock, in milliseconds (10 minutes)
TimeUnit == 10 * 60 * 1000
\* cleanupStaleSessions: const maxAge = 30 * 60 * 1000
maxAge == 30 * 60 * 1000

NoHandle == 0
Handles == 1..MaxHandles
NoSession == [stagehand |-> NoHandle, createdAt |-> 0, lastActivity |-> 0]

VARIABLES
    \* ---- SessionManager (sessions.ts)
    now,          \* wall clock, new Date().getTime()
    sessions,     \* Map<string, Session>: id -> Session, NoSession when absent
    order,        \* insertion order of the Map's keys (what iteration follows)
    hstate,       \* each Stagehand object: unused/initializing/live/closing/released/...
    hsid,         \* the sessionId a Stagehand object was created for
    closeCalls,   \* how often stagehand.close() was invoked on the object
    \* ---- requests of routes/api.ts in flight
    pc,           \* position of each request slot
    kind,         \* the route it runs
    sid,          \* its sessionId
    hnd,          \* its local `stagehand`
    shotH,        \* the handle captureAndBroadcast got for its screenshot
    rem,          \* fill-form: fields not yet processed
    resp,         \* the response the slot's last request received
    \* ---- POST /fill-form: the request body, the report, and what the
    \*      automation capability was asked and answered
    nfields,      \* fields.length
    results,      \* the route's `results`; sent as the response's `results`
    acted,        \* fields (by position) stagehand.act was invoked for
    threw,        \* fields (by position) whose stagehand.act threw
    \* ---- cleanupStaleSessions (the setInterval callback)
    sweepPc, sweepNow, cursor, sweepId, sweepH,
    \* ---- closeAll() (process shutdown)
    caPc,         \* idle / closing / done
    caIds,        \* sessionIds of the snapshot still to be closed
    caId, caH,    \* the close(sessionId) it awaits and that session's handle
    \* ---- observation: create(id) immediately followed by close(id)
    track,
    \* ---- observation of a closeAll(): the handles registered when it was
    \*      called, whether sessions.set ran since, whether a release threw
    caSnap, caDirty, caErr,
    \* ---- observation of what the routes publish through wsManager
    watch,        \* the sessionId an observer is subscribed to, "null" for none
    feed,         \* per request slot: the events its request published to that
                  \* observer and the automation calls ("act") it invoked, in order
    \* ---- two clients that are sent the same things
    plan          \* the request, or the outcome of the awaited browser call,
                  \* that both of them get next

fillVars == <<nfields, results, acted, threw>>

caVars == <<caPc, caIds, caId, caH, caSnap, caDirty, caErr>>

obsVars == <<watch, feed>>

regVars == <<now, sessions, order, hstate, hsid, closeCalls, pc, kind, sid, hnd,
             shotH, rem, resp, fillVars, sweepPc, sweepNow, cursor, sweepId, sweepH, track,
             caVars, obsVars, plan>>

VARIABLES
    \* ---- WebSocketManager (websocket.ts)
    inMap,        \* the ws is a key of `clients`
    bound,        \* ClientInfo.sessionId, "null" when unbound
    ready,        \* ws.readyState
    inbox,        \* what the observer behind the ws has received, in order
    published,    \* the sessionId of every broadcast() call so far, in order
    asked         \* the observer's side: the sessionId of the last subscribe
                  \* it sent on this connection while registered, "null" for none

wsVars == <<inMap, bound, ready, inbox, published, asked>>

VARIABLES
    \* ---- the WebSocket workflow server: one closure per connection
    wsState,         \* ws.readyState of the connection
    otpResolver,     \* otpResolver is set (TRUE) or null (FALSE)
    workflowRunning, \* the connection's workflowRunning flag
    wfPc,            \* runWorkflow: 0 when not running, else the awaited step
    wfFailed,        \* runWorkflow: the catch block was entered
    wfHandle,        \* runWorkflow's `stagehand`
    otpVal,          \* the value getOtp() resolved with
    closeTimer,      \* a setTimeout(() => ws.close(), 1000) is pending
    sent,            \* the types of the messages sent to the client so far
    wfCloseCalls     \* how often the current run invoked stagehand.close()

wfVars == <<wsState, otpResolver, workflowRunning, wfPc, wfFailed, wfHandle,
            otpVal, closeTimer, sent, wfCloseCalls>>

VARIABLES
    \* ---- the HTTP workflow server (server.ts): POST /start
    isRunning,    \* the module's isRunning flag
    stPc,         \* per request: idle, the awaited step of runWorkflow, closing
    stFailed,     \* runWorkflow's catch block was entered
    stResp        \* the status of the response the slot's last request got

startVars == <<isRunning, stPc, stFailed, stResp>>

vars == <<regVars, wsVars, wfVars, startVars>>

(* ------------------------- SessionManager ------------------------------ *)
Has(id) == sessions[id].stagehand # NoHandle

\* Map.delete(key) on the key order
DeleteKey(ord, id) == SelectSeq(ord, LAMBDA k : k # id)

\* Map.set(key, v) on the key order: a new key is appended, a known one stays
SetKey(ord, id) == IF \E i \in 1..Len(ord) : ord[i] = id THEN ord ELSE Append(ord, id)

IndexOf(ord, id) == CHOOSE i \in 1..Len(ord) : ord[i] = id

\* a live Map iterator standing before entry `cur` after Map.delete(id)
CursorAfterDelete(cur, ord, id) ==
    IF (\E i \in 1..Len(ord) : ord[i] = id) /\ IndexOf(ord, id) < cur
    THEN cur - 1 ELSE cur

\* get(sessionId): the handle, NoHandle for undefined
GetResult(ses, id) == ses[id].stagehand

\* get(sessionId): session.lastActivity = new Date() when present
SessionsAfterGet(ses, id) ==
    IF ses[id].stagehand # NoHandle
    THEN [ses EXCEPT ![id].lastActivity = now]
    ELSE ses

\* a close() that deletes the entry only when the release call returned
SessionsAfterCloseUnlessThrown(ses, id, ok) == IF ok THEN [ses EXCEPT ![id] = NoSession] ELSE ses

\* close(sessionId) after the awaited release: this.sessions.delete(sessionId),
\* whether stagehand.close() returned or threw
SessionsAfterClose(ses, id, ok) == [ses EXCEPT ![id] = NoSession]

\* create(sessionId): this.sessions.set(sessionId, {stagehand, createdAt, lastActivity})
SessionsAfterSet(ses, id, h) ==
    [ses EXCEPT ![id] = [stagehand |-> h, createdAt |-> now, lastActivity |-> now]]

\* a create() that registers the session before stagehand.init() is over
SessionsAfterInitRegardless(ses, id, h, ok) == SessionsAfterSet(ses, id, h)

\* create(sessionId) after `await stagehand.init()`: sessions.set runs when
\* init returned; when it threw, create() has thrown before reaching it
SessionsAfterInit(ses, id, h, ok) == IF ok THEN SessionsAfterSet(ses, id, h) ELSE ses

\* the Stagehand object after an awaited stagehand.close() returned or threw:
\* "released" says that a release call on it is over, whatever its outcome
HAfterRelease(hs, h, ok) == [hs EXCEPT ![h] = "released"]

\* the Stagehand object once stagehand.close() has been invoked on it
HAfterCloseCall(hs, h) == [hs EXCEPT ![h] = IF hs[h] = "live" THEN "closing" ELSE hs[h]]

\* a sweep that measures the age from the creation time
IsStaleByCreation(session, t) == t - session.createdAt > maxAge

\* a sweep with the comparison turned round
IsStaleFlipped(session, t) == t - session.lastActivity < maxAge

\* cleanupStaleSessions: age = now.getTime() - session.lastActivity.getTime(); age > maxAge
IsStale(session, t) == t - session.lastActivity > maxAge

\* new Stagehand({...}): the next object never used before
FreshHandle == CHOOSE h \in Handles : hstate[h] = "unused" /\ \A g \in Handles : g < h => hstate[g] # "unused"

\* the stale entry the synchronous part of the sweep's loop reaches next, 0 for none
NextStale(ord, ses, cur, t) ==
    LET S == {i \in cur..Len(ord) : IsStale(ses[ord[i]], t)}
    IN  IF S = {} THEN 0 ELSE CHOOSE i \in S : \A j \in S : i <= j

\* create(id) then close(id) with nothing else on id in between, as an observer sees it
TrackOnSet(tr, id) == [tr EXCEPT ![id] = "created"]
TrackOnCloseStart(tr, id) == [tr EXCEPT ![id] = IF tr[id] = "created" THEN "closing" ELSE "none"]
TrackOnCloseEnd(tr, id) == [tr EXCEPT ![id] = IF tr[id] = "closing" THEN "closed" ELSE "none"]
TrackOnOther(tr, id) == [tr EXCEPT ![id] = "none"]
\* ... and then close(id) once more, on the id that is no longer registered
TrackOnCloseAbsent(tr, id) == [tr EXCEPT ![id] = IF tr[id] = "closed" THEN "reclosed" ELSE "none"]

(* --------------------------- routes/api.ts ----------------------------- *)
\* routes that advance the workflow of a session
Advancing == {"init", "execute", "input", "analyze", "click", "submit", "fill-form"}

\* the routes that get the session and await one automation call
Routes == {"execute", "input", "analyze", "click", "submit"}

\* the routes that pause (setTimeout) between the automation call and the capture
Pausing == {"init", "click", "submit"}

\* the calls a route makes that an observer of the session can learn of:
\* wsManager.broadcastLog(sessionId, message, level), broadcastStatus,
\* broadcastScreenshot, and the automation call itself
Log(m, lv) == [fn |-> "broadcastLog", message |-> m, level |-> lv]
Status(m) == [fn |-> "broadcastStatus", message |-> m, level |-> "-"]
Shot == [fn |-> "broadcastScreenshot", message |-> "-", level |-> "-"]
Act == [fn |-> "act", message |-> "-", level |-> "-"]

\* the data object broadcast() sends for the call: {type, sessionId, message,
\* timestamp}; broadcastLog does not put its `level` parameter into it
Data(c) ==
    [type |-> CASE c.fn = "broadcastLog" -> "log"
                [] c.fn = "broadcastStatus" -> "status"
                [] c.fn = "broadcastScreenshot" -> "screenshot"
                [] OTHER -> c.fn,
     message |-> c.message]

\* what the catch block of the route publishes before it answers: only
\* /execute calls wsManager.broadcastLog(sessionId, "Action failed: ...", "error")
CatchEvents(k) == IF k = "execute" THEN <<Log("Action failed", "error")>> ELSE <<>>

\* what the route publishes between the lookup of the session and its
\* automation call (/init: before sessionManager.create)
IntentEvents(k) ==
    CASE k = "init" -> <<Log("Initializing browser", "info"), Status("init")>>
      [] k = "execute" -> <<Log("Executing", "info")>>
      [] k = "input" -> <<Log("Entering", "info")>>
      [] k = "analyze" -> <<Log("Analyzing page", "info")>>
      [] k = "click" -> <<Log("Clicking", "info")>>
      [] k = "submit" -> <<Log("Clicking submit button", "info"), Status("submit")>>
      [] k = "fill-form" -> <<Status("fill_form")>>
      [] k = "close" -> <<Log("Closing browser", "info")>>
      [] OTHER -> <<>>

\* what the route publishes between captureAndBroadcast and res.json
CompletionEvents(k) ==
    CASE k = "init" -> <<Log("Browser ready", "success"), Status("init")>>
      [] k = "click" -> <<Log("Clicked", "success")>>
      [] k = "submit" -> <<Log("Form submitted", "success")>>
      [] k = "input" -> <<Log("entered", "success")>>
      [] OTHER -> <<>>

\* captureAndBroadcast: wsManager.broadcastScreenshot after page.screenshot()
\* returned; nothing when there was no session or the screenshot threw
CaptureEvents(h, ok) == IF h # NoHandle /\ ok THEN <<Shot>> ELSE <<>>

\* the fill-form loop goes on: "Filling: label" and stagehand.act for the next
\* field, or "Filled n/m fields" after the last one
LoopEvents(more) ==
    IF more THEN <<Log("Filling", "info"), Act>> ELSE <<Log("Filled", "success")>>

\* /init after create(): "Navigating to ..." and page.goto
NavigateEvents == <<Log("Navigating", "info"), Act>>

\* what a client can be sent: a request of one of the routes (fill-form with
\* n fields), or the outcome of the call its request awaits
NoPlan == [op |-> "none", ok |-> TRUE, n |-> 0]
Plans ==
    {[op |-> o, ok |-> TRUE, n |-> 0] : o \in Routes \cup {"init", "screenshot", "close"}}
    \cup {[op |-> "fill-form", ok |-> TRUE, n |-> m] : m \in ShortForms}
    \cup {[op |-> "return", ok |-> b, n |-> 0] : b \in BOOLEAN}

\* broadcast(sessionId, data) reaches the observer subscribed to the session
Published(r, id, calls) ==
    feed' = IF watch = id
            THEN [feed EXCEPT ![r] = @ \o [i \in 1..Len(calls) |-> Data(calls[i])]]
            ELSE feed

\* a request arrives in the slot: what it publishes up to its first await
Began(r, id, calls) ==
    feed' = [feed EXCEPT ![r] = IF watch = id
                                THEN [i \in 1..Len(calls) |-> Data(calls[i])]
                                ELSE <<>>]

\* a request of an advancing route is in flight for the session
Busy(id) == \E q \in Reqs : pc[q] # "idle" /\ sid[q] = id /\ kind[q] \in Advancing

\* automation-capability calls (goto, act, screenshot) in progress on a handle
ActingOn(h) == {q \in Reqs : pc[q] = "acting" /\ hnd[q] = h}
ShootingOn(h) == {q \in Reqs : pc[q] = "shot" /\ shotH[q] = h}
InFlight(h) == Cardinality(ActingOn(h)) + Cardinality(ShootingOn(h))

sweepVars == <<sweepPc, sweepNow, cursor, sweepId, sweepH>>

\* a field loop that records only the fields that were filled
ResultsAfterFieldFilledOnly(res, key, ok) ==
    IF ok THEN Append(res, [key |-> key, success |-> TRUE]) ELSE res

\* fill-form: results.push({key, success: true}) after stagehand.act returned,
\* results.push({key, success: false, error}) in the catch when it threw
ResultsAfterField(res, key, ok) == Append(res, [key |-> key, success |-> ok])

\* the field of `fields` the loop of the request is at, by position
CurrentField(r) == nfields[r] - rem[r] + 1

\* the report of the request in the slot: `results` is a local of the handler,
\* fresh (empty) when a fill-form request begins and gone once it has answered
NewReport(r, n, first) ==
    /\ nfields' = [nfields EXCEPT ![r] = n]
    /\ results' = [results EXCEPT ![r] = <<>>]
    /\ acted' = [acted EXCEPT ![r] = first]
    /\ threw' = [threw EXCEPT ![r] = {}]

\* the request is answered: the slot is free again
Respond(r, answer) ==
    /\ pc' = [pc EXCEPT ![r] = "idle"]
    /\ kind' = [kind EXCEPT ![r] = "none"]
    /\ sid' = [sid EXCEPT ![r] = "none"]
    /\ hnd' = [hnd EXCEPT ![r] = NoHandle]
    /\ shotH' = [shotH EXCEPT ![r] = NoHandle]
    /\ rem' = [rem EXCEPT ![r] = 0]
    /\ resp' = [resp EXCEPT ![r] = answer]

\* what follows captureAndBroadcast: the pause of the fill-form loop, or the response
AfterCapture(r, left) ==
    IF kind[r] = "fill-form" /\ left > 0
    THEN /\ pc' = [pc EXCEPT ![r] = "settle"]
         /\ shotH' = [shotH EXCEPT ![r] = NoHandle]
         /\ rem' = [rem EXCEPT ![r] = left]
         /\ UNCHANGED <<kind, sid, hnd, resp>>
    ELSE Respond(r, "ok")

\* await captureAndBroadcast(sessionId, step): sessionManager.get, then
\* page.screenshot() is awaited; with no session (NoHandle) it returns null
\* and only the route's own await is pending
CaptureAndBroadcast(r, left) ==
    LET h == GetResult(sessions, sid[r])
    IN  /\ sessions' = SessionsAfterGet(sessions, sid[r])
        /\ track' = TrackOnOther(track, sid[r])
        /\ pc' = [pc EXCEPT ![r] = "shot"]
        /\ shotH' = [shotH EXCEPT ![r] = h]
        /\ rem' = [rem EXCEPT ![r] = left]
        /\ UNCHANGED <<kind, sid, hnd, resp>>

\* handles not yet promised to a create() that is still closing the prior session
Reserved == Cardinality({q \in Reqs : pc[q] = "create_close"})
Unused == {h \in Handles : hstate[h] = "unused"}

\* POST /init: sessionManager.create(sessionId) up to its first await
InitRequest(r, id) ==
    /\ pc[r] = "idle"
    /\ Cardinality(Unused) > Reserved
    /\ kind' = [kind EXCEPT ![r] = "init"]
    /\ sid' = [sid EXCEPT ![r] = id]
    /\ resp' = [resp EXCEPT ![r] = "none"]
    /\ track' = TrackOnOther(track, id)
    /\ IF Has(id)
       THEN LET h == sessions[id].stagehand
            IN  /\ pc' = [pc EXCEPT ![r] = "create_close"]
                /\ hnd' = [hnd EXCEPT ![r] = h]
                /\ hstate' = HAfterCloseCall(hstate, h)
                /\ closeCalls' = [closeCalls EXCEPT ![h] = @ + 1]
                /\ hsid' = hsid
       ELSE LET n == FreshHandle
            IN  /\ pc' = [pc EXCEPT ![r] = "create_init"]
                /\ hnd' = [hnd EXCEPT ![r] = n]
                /\ hstate' = [hstate EXCEPT ![n] = "initializing"]
                /\ hsid' = [hsid EXCEPT ![n] = id]
                /\ closeCalls' = closeCalls
    /\ Began(r, id, IntentEvents("init"))
    /\ UNCHANGED <<now, sessions, order, shotH, rem, fillVars, sweepVars>>
    /\ UNCHANGED <<watch, caVars, wsVars, wfVars, plan, startVars>>

\* create(): the awaited close(sessionId) of the prior session is over; the
\* entry is deleted, then new Stagehand(...) and stagehand.init() begin
CreateCloseReturn(r, ok) ==
    /\ pc[r] = "create_close"
    /\ LET id == sid[r]
           n == FreshHandle
       IN  /\ hstate' = [HAfterRelease(hstate, hnd[r], ok) EXCEPT ![n] = "initializing"]
           /\ hsid' = [hsid EXCEPT ![n] = id]
           /\ sessions' = SessionsAfterClose(sessions, id, ok)
           /\ order' = DeleteKey(order, id)
           /\ cursor' = CursorAfterDelete(cursor, order, id)
           /\ track' = TrackOnOther(track, id)
           /\ hnd' = [hnd EXCEPT ![r] = n]
           /\ pc' = [pc EXCEPT ![r] = "create_init"]
    /\ UNCHANGED <<now, closeCalls, kind, sid, shotH, rem, resp, fillVars,
                   sweepPc, sweepNow, sweepId, sweepH>>
    /\ UNCHANGED <<obsVars, caVars, wsVars, wfVars, plan, startVars>>

\* create(): stagehand.init() returned (the session is registered and /init
\* starts page.goto) or threw (/init answers 500)
CreateInitReturn(r, ok) ==
    /\ pc[r] = "create_init"
    /\ LET id == sid[r]
           h == hnd[r]
       IN  /\ sessions' = SessionsAfterInit(sessions, id, h, ok)
           /\ IF ok
              THEN /\ hstate' = [hstate EXCEPT ![h] = "live"]
                   /\ order' = SetKey(order, id)
                   /\ track' = TrackOnSet(track, id)
                   /\ pc' = [pc EXCEPT ![r] = "acting"]
                   /\ Published(r, id, NavigateEvents)
                   /\ UNCHANGED <<kind, sid, hnd, shotH, rem, resp>>
              ELSE /\ hstate' = [hstate EXCEPT ![h] = "init_failed"]
                   /\ Respond(r, "error")
                   /\ Published(r, id, CatchEvents("init"))
                   /\ UNCHANGED <<order, track>>
    /\ caDirty' = (caDirty \/ (ok /\ caPc # "idle"))
    /\ UNCHANGED <<now, hsid, closeCalls, fillVars, sweepVars>>
    /\ UNCHANGED <<watch, caPc, caIds, caId, caH, caSnap, caErr, wsVars, wfVars, plan, startVars>>

\* POST /execute, /input, /analyze (get, one automation call, capture) and
\* /click, /submit (the same with a pause before the capture):
\* sessionManager.get, 404 when absent, else stagehand.act(prompt) begins
ExecuteRequest(r, id, k) ==
    /\ pc[r] = "idle"
    /\ LET h == GetResult(sessions, id)
       IN  /\ sessions' = SessionsAfterGet(sessions, id)
           /\ track' = TrackOnOther(track, id)
           /\ IF h = NoHandle
              THEN Respond(r, "not_found") /\ Began(r, id, <<>>)
              ELSE /\ pc' = [pc EXCEPT ![r] = "acting"]
                   /\ Began(r, id, IntentEvents(k) \o <<Act>>)
                   /\ kind' = [kind EXCEPT ![r] = k]
                   /\ sid' = [sid EXCEPT ![r] = id]
                   /\ hnd' = [hnd EXCEPT ![r] = h]
                   /\ resp' = [resp EXCEPT ![r] = "none"]
                   /\ UNCHANGED <<shotH, rem>>
    /\ UNCHANGED <<now, order, hstate, hsid, closeCalls, fillVars, sweepVars>>
    /\ UNCHANGED <<watch, caVars, wsVars, wfVars, plan, startVars>>

\* a field loop that starts the calls of all fields at once
FirstCallsParallel(n) == 1..n

\* the fields (by position) whose stagehand.act the loop of /fill-form has
\* invoked when the handler reaches its first await: the first field's, if any
FirstCalls(n) == IF n > 0 THEN {1} ELSE {}

\* POST /fill-form: sessionManager.get, 404 when absent, else the field loop
\* begins with the first field's stagehand.act (no field: the final capture)
FillFormRequest(r, id, n) ==
    /\ pc[r] = "idle"
    /\ LET h == GetResult(sessions, id)
       IN  /\ sessions' = SessionsAfterGet(sessions, id)
           /\ track' = TrackOnOther(track, id)
           /\ IF h = NoHandle
              THEN Respond(r, "not_found") /\ Began(r, id, <<>>) /\ UNCHANGED fillVars
              ELSE /\ NewReport(r, n, FirstCalls(n))
                   /\ Began(r, id, IntentEvents("fill-form") \o LoopEvents(n > 0))
                   /\ pc' = [pc EXCEPT ![r] = IF n > 0 THEN "acting" ELSE "shot"]
                   /\ kind' = [kind EXCEPT ![r] = "fill-form"]
                   /\ sid' = [sid EXCEPT ![r] = id]
                   /\ hnd' = [hnd EXCEPT ![r] = h]
                   /\ shotH' = [shotH EXCEPT ![r] = IF n > 0 THEN NoHandle ELSE h]
                   /\ rem' = [rem EXCEPT ![r] = n]
                   /\ resp' = [resp EXCEPT ![r] = "none"]
    /\ UNCHANGED <<now, order, hstate, hsid, closeCalls, sweepVars>>
    /\ UNCHANGED <<watch, caVars, wsVars, wfVars, plan, startVars>>

\* a route that invokes the automation call a second time when it threw
OnActThrownRetry(r) ==
    /\ IF Len(SelectSeq(feed[r], LAMBDA e : e.type = "act")) < 2
       THEN /\ Published(r, sid[r], <<Act>>)
            /\ UNCHANGED <<pc, kind, sid, hnd, shotH, rem, resp>>
       ELSE /\ Respond(r, "error")
            /\ Published(r, sid[r], CatchEvents(kind[r]))
    /\ UNCHANGED <<sessions, track>>

\* the automation call of the route threw: its catch block publishes what it
\* publishes and answers with the error; nothing is invoked again
OnActThrown(r) ==
    /\ Respond(r, "error")
    /\ Published(r, sid[r], CatchEvents(kind[r]))
    /\ UNCHANGED <<sessions, track>>

\* the awaited automation call (page.goto, stagehand.act) returned or threw
ActReturn(r, ok) ==
    /\ pc[r] = "acting"
    /\ IF kind[r] = "fill-form"
       THEN /\ results' = [results EXCEPT ![r] = ResultsAfterField(@, CurrentField(r), ok)]
            /\ threw' = [threw EXCEPT ![r] = IF ok THEN @ ELSE @ \cup {CurrentField(r)}]
            /\ nfields' = nfields
            /\ IF ok
               THEN CaptureAndBroadcast(r, rem[r]) /\ acted' = acted /\ feed' = feed
               ELSE /\ Published(r, sid[r], LoopEvents(rem[r] > 1))
                    /\ IF rem[r] > 1
                       THEN /\ rem' = [rem EXCEPT ![r] = @ - 1]
                            /\ acted' = [acted EXCEPT ![r] = @ \cup {CurrentField(r) + 1}]
                            /\ UNCHANGED <<pc, kind, sid, hnd, shotH, resp, sessions, track>>
                       ELSE CaptureAndBroadcast(r, 0) /\ acted' = acted
       ELSE /\ UNCHANGED fillVars
            /\ IF ~ok
               THEN OnActThrown(r)
               ELSE /\ feed' = feed
                    /\ IF kind[r] \notin Pausing
                       THEN CaptureAndBroadcast(r, 0)
                       ELSE /\ pc' = [pc EXCEPT ![r] = "settle"]
                            /\ UNCHANGED <<kind, sid, hnd, shotH, rem, resp, sessions, track>>
    /\ UNCHANGED <<now, order, hstate, hsid, closeCalls, sweepVars>>
    /\ UNCHANGED <<watch, caVars, wsVars, wfVars, plan, startVars>>

\* the awaited pause (setTimeout) is over: /init, /click and /submit capture,
\* the fill-form loop goes on to its next field or to the final capture
SettleReturn(r) ==
    /\ pc[r] = "settle"
    /\ IF kind[r] = "fill-form" /\ rem[r] > 1
       THEN /\ pc' = [pc EXCEPT ![r] = "acting"]
            /\ rem' = [rem EXCEPT ![r] = @ - 1]
            /\ acted' = [acted EXCEPT ![r] = @ \cup {CurrentField(r) + 1}]
            /\ UNCHANGED <<kind, sid, hnd, shotH, resp, sessions, track>>
       ELSE CaptureAndBroadcast(r, 0) /\ acted' = acted
    /\ IF kind[r] = "fill-form"
       THEN Published(r, sid[r], LoopEvents(rem[r] > 1))
       ELSE feed' = feed
    /\ UNCHANGED <<nfields, results, threw>>
    /\ UNCHANGED <<now, order, hstate, hsid, closeCalls, sweepVars>>
    /\ UNCHANGED <<watch, caVars, wsVars, wfVars, plan, startVars>>

\* a /screenshot route that answers success whatever the capture gave
ScreenshotAnswerAlways(h, ok) == "ok"

\* a /screenshot route whose capture counts only when an observer got it
ScreenshotAnswerObserved(h, ok) ==
    IF h # NoHandle /\ ok /\ hsid[h] = watch THEN "ok" ELSE "not_found"

\* POST /screenshot: captureAndBroadcast gave null (no session, or the
\* screenshot threw and was caught): 404 "Session not found"; else success
ScreenshotAnswer(h, ok) == IF h # NoHandle /\ ok THEN "ok" ELSE "not_found"

\* POST /screenshot: captureAndBroadcast(sessionId, "manual") is awaited
ScreenshotRequest(r, id) ==
    /\ pc[r] = "idle"
    /\ LET h == GetResult(sessions, id)
       IN  /\ sessions' = SessionsAfterGet(sessions, id)
           /\ track' = TrackOnOther(track, id)
           /\ pc' = [pc EXCEPT ![r] = "shot"]
           /\ kind' = [kind EXCEPT ![r] = "screenshot"]
           /\ sid' = [sid EXCEPT ![r] = id]
           /\ shotH' = [shotH EXCEPT ![r] = h]
           /\ resp' = [resp EXCEPT ![r] = "none"]
    /\ Began(r, id, IntentEvents("screenshot"))
    /\ UNCHANGED <<now, order, hstate, hsid, closeCalls, hnd, rem, fillVars, sweepVars>>
    /\ UNCHANGED <<watch, caVars, wsVars, wfVars, plan, startVars>>

\* a request whose body fails Schema.parse(req.body), the first statement of
\* the route's try: the catch block answers with the ZodError; `id` is
\* req.body?.sessionId, "none" when the body has none
InvalidRequest(r, k, id) ==
    /\ pc[r] = "idle"
    /\ Respond(r, "invalid")
    /\ Began(r, id, CatchEvents(k))
    /\ UNCHANGED <<now, sessions, order, hstate, hsid, closeCalls, fillVars,
                   sweepVars, track>>
    /\ UNCHANGED <<watch, caVars, wsVars, wfVars, plan, startVars>>

\* the awaited captureAndBroadcast is over (page.screenshot() returned or
\* threw and was caught, or there was no session): the route goes on; the
\* fill-form route answers with res.json({success: true, results, screenshot})
ShotReturn(r, ok) ==
    /\ pc[r] = "shot"
    /\ IF kind[r] = "screenshot"
       THEN Respond(r, ScreenshotAnswer(shotH[r], ok))
       ELSE AfterCapture(r, rem[r])
    /\ Published(r, sid[r], CaptureEvents(shotH[r], ok)
                              \o IF kind[r] = "fill-form" /\ rem[r] > 0
                                 THEN <<>> ELSE CompletionEvents(kind[r]))
    /\ IF kind[r] = "fill-form" /\ rem[r] = 0
       THEN NewReport(r, 0, {})
       ELSE UNCHANGED fillVars
    /\ UNCHANGED <<now, sessions, order, hstate, hsid, closeCalls, sweepVars, track>>
    /\ UNCHANGED <<watch, caVars, wsVars, wfVars, plan, startVars>>

\* a /close route that reports an unknown session
CloseAnswerNotFound(found, ok) == IF found THEN "ok" ELSE "not_found"

\* a /close route that reports the failure of the release call
CloseAnswerRethrown(found, ok) == IF found /\ ~ok THEN "error" ELSE "ok"

\* POST /close: close() returns normally whether the session was found or
\* not and whether stagehand.close() returned or threw; res.json({success: true})
CloseAnswer(found, ok) == "ok"

\* POST /close: sessionManager.close(sessionId) up to its await
CloseRequest(r, id) ==
    /\ pc[r] = "idle"
    /\ IF Has(id)
       THEN LET h == sessions[id].stagehand
            IN  /\ pc' = [pc EXCEPT ![r] = "closing"]
                /\ kind' = [kind EXCEPT ![r] = "close"]
                /\ sid' = [sid EXCEPT ![r] = id]
                /\ hnd' = [hnd EXCEPT ![r] = h]
                /\ resp' = [resp EXCEPT ![r] = "none"]
                /\ hstate' = HAfterCloseCall(hstate, h)
                /\ closeCalls' = [closeCalls EXCEPT ![h] = @ + 1]
                /\ track' = TrackOnCloseStart(track, id)
                /\ UNCHANGED <<shotH, rem>>
       ELSE /\ Respond(r, CloseAnswer(FALSE, TRUE))
            /\ track' = TrackOnCloseAbsent(track, id)
            /\ UNCHANGED <<hstate, closeCalls>>
    /\ Began(r, id, IntentEvents("close"))
    /\ UNCHANGED <<now, sessions, order, hsid, fillVars, sweepVars>>
    /\ UNCHANGED <<watch, caVars, wsVars, wfVars, plan, startVars>>

\* close(): the awaited stagehand.close() returned or threw (caught); the
\* entry under sessionId is deleted and /close answers success
CloseReturn(r, ok) ==
    /\ pc[r] = "closing"
    /\ hstate' = HAfterRelease(hstate, hnd[r], ok)
    /\ LET ses1 == SessionsAfterClose(sessions, sid[r], ok)
           gone == ses1[sid[r]].stagehand = NoHandle
       IN  /\ sessions' = ses1
           /\ order' = IF gone THEN DeleteKey(order, sid[r]) ELSE order
           /\ cursor' = IF gone THEN CursorAfterDelete(cursor, order, sid[r]) ELSE cursor
    /\ track' = TrackOnCloseEnd(track, sid[r])
    /\ Respond(r, CloseAnswer(TRUE, ok))
    /\ UNCHANGED <<now, hsid, closeCalls, fillVars, sweepPc, sweepNow, sweepId, sweepH>>
    /\ UNCHANGED <<obsVars, caVars, wsVars, wfVars, plan, startVars>>

(* ------------------------- the idle sweep ------------------------------ *)
SweepIdle ==
    /\ sweepPc' = "idle" /\ sweepNow' = 0 /\ cursor' = 0
    /\ sweepId' = "none" /\ sweepH' = NoHandle

\* the loop of cleanupStaleSessions from entry `cur` on, up to its next await:
\* entries that are not stale are passed, the first stale one is closed
SweepLoop(ord, ses, hs, tr, cur, t) ==
    LET i == NextStale(ord, ses, cur, t)
    IN  IF i = 0
        THEN /\ SweepIdle
             /\ hstate' = hs /\ closeCalls' = closeCalls /\ track' = tr
        ELSE LET id == ord[i]
                 h == ses[id].stagehand
             IN  /\ sweepPc' = "closing" /\ sweepNow' = t /\ cursor' = i + 1
                 /\ sweepId' = id /\ sweepH' = h
                 /\ hstate' = HAfterCloseCall(hs, h)
                 /\ closeCalls' = [closeCalls EXCEPT ![h] = @ + 1]
                 /\ track' = TrackOnCloseStart(tr, id)

\* the setInterval timer fires: cleanupStaleSessions() starts
SweepStart ==
    /\ sweepPc = "idle"
    /\ SweepLoop(order, sessions, hstate, track, 1, now)
    /\ UNCHANGED <<now, sessions, order, hsid, pc, kind, sid, hnd, shotH, rem, resp, fillVars>>
    /\ UNCHANGED <<obsVars, caVars, wsVars, wfVars, plan, startVars>>

\* cleanupStaleSessions: the awaited close(sessionId) is over, the loop goes on
SweepCloseReturn(ok) ==
    /\ sweepPc = "closing"
    /\ LET ses1 == SessionsAfterClose(sessions, sweepId, ok)
           gone == ses1[sweepId].stagehand = NoHandle
           ord1 == IF gone THEN DeleteKey(order, sweepId) ELSE order
           cur1 == IF gone THEN CursorAfterDelete(cursor, order, sweepId) ELSE cursor
       IN  /\ sessions' = ses1
           /\ order' = ord1
           /\ SweepLoop(ord1, ses1, HAfterRelease(hstate, sweepH, ok),
                        TrackOnCloseEnd(track, sweepId), cur1, sweepNow)
    /\ UNCHANGED <<now, hsid, pc, kind, sid, hnd, shotH, rem, resp, fillVars>>
    /\ UNCHANGED <<obsVars, caVars, wsVars, wfVars, plan, startVars>>

\* time passes
Tick ==
    /\ now < MaxTicks * TimeUnit
    /\ now' = now + TimeUnit
    /\ UNCHANGED <<sessions, order, hstate, hsid, closeCalls, pc, kind, sid, hnd,
                   shotH, rem, resp, fillVars, sweepVars, track>>
    /\ UNCHANGED <<obsVars, caVars, wsVars, wfVars, plan, startVars>>

(* ------------------------------ closeAll ------------------------------- *)
\* a closeAll that gives up at the first release call that throws
CloseAllRestAborted(rest, ok) == IF ok THEN rest ELSE <<>>

\* closeAll: the for loop goes on to the next sessionId whether the awaited
\* close(sessionId) met a failing release or not (close() catches it)
CloseAllRest(rest, ok) == rest

\* the first sessionId of the snapshot that is still registered, 0 for none
NextTracked(ids, ses) ==
    LET S == {i \in 1..Len(ids) : ses[ids[i]].stagehand # NoHandle}
    IN  IF S = {} THEN 0 ELSE CHOOSE i \in S : \A j \in S : i <= j

\* the loop of closeAll over the sessionIds left, up to its next await:
\* close() of an id that is no longer registered returns at once, the first
\* registered one has its release call invoked
CloseAllLoop(ids, ses, hs, tr) ==
    LET i == NextTracked(ids, ses)
    IN  IF i = 0
        THEN /\ caPc' = "done" /\ caIds' = <<>> /\ caId' = "none" /\ caH' = NoHandle
             /\ hstate' = hs /\ closeCalls' = closeCalls /\ track' = tr
        ELSE LET id == ids[i]
                 h == ses[id].stagehand
             IN  /\ caPc' = "closing" /\ caIds' = SubSeq(ids, i + 1, Len(ids))
                 /\ caId' = id /\ caH' = h
                 /\ hstate' = HAfterCloseCall(hs, h)
                 /\ closeCalls' = [closeCalls EXCEPT ![h] = @ + 1]
                 /\ track' = TrackOnCloseStart(tr, id)

\* closeAll(): sessionIds = Array.from(this.sessions.keys()), then the loop
CloseAllStart ==
    /\ caPc = "idle"
    /\ CloseAllLoop(order, sessions, hstate, track)
    /\ caSnap' = {sessions[id].stagehand : id \in {k \in Ids : Has(k)}}
    /\ caDirty' = FALSE /\ caErr' = FALSE
    /\ UNCHANGED <<now, sessions, order, hsid, pc, kind, sid, hnd, shotH, rem, resp,
                   fillVars, sweepVars>>
    /\ UNCHANGED <<obsVars, wsVars, wfVars, plan, startVars>>

\* closeAll: the awaited close(sessionId) is over (the release returned or
\* threw, the entry is deleted), the loop goes on
CloseAllReturn(ok) ==
    /\ caPc = "closing"
    /\ LET ses1 == SessionsAfterClose(sessions, caId, ok)
           gone == ses1[caId].stagehand = NoHandle
       IN  /\ sessions' = ses1
           /\ order' = IF gone THEN DeleteKey(order, caId) ELSE order
           /\ cursor' = IF gone THEN CursorAfterDelete(cursor, order, caId) ELSE cursor
           /\ CloseAllLoop(CloseAllRest(caIds, ok), ses1, HAfterRelease(hstate, caH, ok),
                           TrackOnCloseEnd(track, caId))
    /\ caErr' = (caErr \/ ~ok)
    /\ UNCHANGED <<caSnap, caDirty>>
    /\ UNCHANGED <<now, hsid, pc, kind, sid, hnd, shotH, rem, resp, fillVars,
                   sweepPc, sweepNow, sweepId, sweepH>>
    /\ UNCHANGED <<obsVars, wsVars, wfVars, plan, startVars>>

(* ------------------------ WebSocketManager ----------------------------- *)
\* a broadcast that leaves out the comparison of the sessionId
BroadcastTargetsUnfiltered(id) == {c \in Chans : inMap[c] /\ ready[c] = "OPEN"}

\* a broadcast that leaves out the test of the readyState
BroadcastTargetsAnyState(id) == {c \in Chans : inMap[c] /\ bound[c] = id}

\* broadcast(): client.sessionId === sessionId && client.ws.readyState === WebSocket.OPEN
BroadcastTargets(id) == {c \in Chans : inMap[c] /\ bound[c] = id /\ ready[c] = "OPEN"}

\* a subscribe handler that replays the events published so far for the session
InboxAfterSubscribeReplayed(c, id) ==
    [inbox EXCEPT ![c] = @ \o [i \in 1..Cardinality({j \in 1..Len(published) : published[j] = id})
                                 |-> [sessionId |-> id, seq |-> i]]]

\* ws.on("message") with subscribe: only client.sessionId is assigned, nothing
\* is sent to the client
InboxAfterSubscribe(c, id) == inbox

\* a subscribe handler that keeps the first binding of a client
BoundAfterSubscribeFirstKept(c, id) ==
    IF id # "" /\ inMap[c] /\ bound[c] = "null" THEN [bound EXCEPT ![c] = id] ELSE bound

\* ws.on("message") with subscribe: client.sessionId = message.sessionId, when
\* the sessionId is not empty and the ws is still a key of `clients`
BoundAfterSubscribe(c, id) ==
    IF id # "" /\ inMap[c] THEN [bound EXCEPT ![c] = id] ELSE bound

\* a disconnect handler that leaves the client in `clients`
InMapAfterDisconnectKept(c) == inMap

\* ws.on("close") and ws.on("error"): this.clients.delete(ws)
InMapAfterDisconnect(c) == [inMap EXCEPT ![c] = FALSE]

\* a delivery that overtakes what the client was sent before
DeliverAhead(box, e) == <<e>> \o box

\* client.ws.send(message): messages of one ws arrive in the order sent
Deliver(box, e) == Append(box, e)

\* a client connects: wss.on("connection") registers it with sessionId null
WsConnect(c) ==
    /\ ready[c] = "CLOSED" /\ ~inMap[c]
    /\ ready' = [ready EXCEPT ![c] = "OPEN"]
    /\ inMap' = [inMap EXCEPT ![c] = TRUE]
    /\ bound' = [bound EXCEPT ![c] = "null"]
    /\ inbox' = [inbox EXCEPT ![c] = <<>>]
    /\ asked' = [asked EXCEPT ![c] = "null"]
    /\ UNCHANGED published
    /\ UNCHANGED <<regVars, wfVars, startVars>>

\* ws.on("message"): {type: "subscribe", sessionId} binds the client, when the
\* sessionId is not empty and the ws is still a key of `clients`
WsSubscribe(c, id) ==
    /\ ready[c] = "OPEN"
    /\ bound' = BoundAfterSubscribe(c, id)
    /\ inbox' = InboxAfterSubscribe(c, id)
    /\ asked' = IF id # "" /\ inMap[c] THEN [asked EXCEPT ![c] = id] ELSE asked
    /\ UNCHANGED <<inMap, ready, published>>
    /\ UNCHANGED <<regVars, wfVars, startVars>>

\* the closing handshake of the ws begins: readyState leaves OPEN
WsClosing(c) ==
    /\ ready[c] = "OPEN"
    /\ ready' = [ready EXCEPT ![c] = "CLOSING"]
    /\ UNCHANGED <<inMap, bound, inbox, published, asked>>
    /\ UNCHANGED <<regVars, wfVars, startVars>>

\* ws.on("close"): this.clients.delete(ws)
WsClose(c) ==
    /\ ready[c] \in {"OPEN", "CLOSING"}
    /\ ready' = [ready EXCEPT ![c] = "CLOSED"]
    /\ inMap' = InMapAfterDisconnect(c)
    /\ bound' = [bound EXCEPT ![c] = IF inMap'[c] THEN @ ELSE "null"]
    /\ asked' = [asked EXCEPT ![c] = "null"]
    /\ UNCHANGED <<inbox, published>>
    /\ UNCHANGED <<regVars, wfVars, startVars>>

\* ws.on("error"): this.clients.delete(ws); the close event follows later
WsError(c) ==
    /\ ready[c] \in {"OPEN", "CLOSING"} /\ inMap[c]
    /\ inMap' = InMapAfterDisconnect(c)
    /\ bound' = [bound EXCEPT ![c] = IF inMap'[c] THEN @ ELSE "null"]
    /\ asked' = [asked EXCEPT ![c] = "null"]
    /\ UNCHANGED <<ready, inbox, published>>
    /\ UNCHANGED <<regVars, wfVars, startVars>>

\* broadcastLog / broadcastStatus / broadcastScreenshot / requestInput /
\* broadcastResult: each sends one message to every target, synchronously
Broadcast(id) ==
    /\ Len(published) < MaxPub
    /\ published' = Append(published, id)
    /\ inbox' = [c \in Chans |->
                   IF c \in BroadcastTargets(id)
                   THEN Deliver(inbox[c], [sessionId |-> id, seq |-> Len(published) + 1])
                   ELSE inbox[c]]
    /\ UNCHANGED <<inMap, bound, ready, asked>>
    /\ UNCHANGED <<regVars, wfVars, startVars>>

InitWs ==
    /\ inMap = [c \in Chans |-> FALSE]
    /\ bound = [c \in Chans |-> "null"]
    /\ ready = [c \in Chans |-> "CLOSED"]
    /\ inbox = [c \in Chans |-> <<>>]
    /\ published = <<>>
    /\ asked = [c \in Chans |-> "null"]

NextWs ==
    \/ \E c \in Chans : WsConnect(c)
    \/ \E c \in Chans, id \in Ids \cup {""} : WsSubscribe(c, id)
    \/ \E c \in Chans : WsClosing(c)
    \/ \E c \in Chans : WsClose(c)
    \/ \E c \in Chans : WsError(c)
    \/ \E id \in Ids : Broadcast(id)

(* ------------- the WebSocket workflow server and runWorkflow ----------- *)
\* the awaits of runWorkflow, in order
Steps == <<"init", "goto", "act_login", "act_mobile", "act_continue", "otp_wait",
           "act_otp", "act_continue2", "act_exam", "act_class", "act_submit">>

StepIndex(name) == CHOOSE i \in 1..Len(Steps) : Steps[i] = name

\* a workflow whose getOtp() returns without the client's message
AwaitedStepsAndOtp == {Steps[i] : i \in 1..Len(Steps)}

\* the awaits of runWorkflow that the automation capability settles; the
\* await of getOtp() is settled by the OTP_SUBMIT handler alone
AwaitedSteps == {Steps[i] : i \in 1..Len(Steps)} \ {"otp_wait"}

\* a FORM_SUBMIT handler without the workflowRunning test
FormSubmitAcceptedAlways(c) == TRUE

\* msg.type === "FORM_SUBMIT" && !workflowRunning
FormSubmitAccepted(c) == ~workflowRunning[c]

\* an OTP_SUBMIT handler that resolves with a value of its own
OtpResolvedFixed(otp) == "123456"

\* otpResolver(msg.payload.otp): the value `await getOtp()` evaluates to
OtpResolved(otp) == otp

\* send(type, payload): only while ws.readyState === WebSocket.OPEN
SentAfter(c, types) ==
    IF wsState[c] = "OPEN" THEN [sent EXCEPT ![c] = @ \cup types] ELSE sent

\* a runWorkflow that closes the browser only when no step threw
EnterFinallyUnlessFailed(c, failed) ==
    /\ wfPc' = [wfPc EXCEPT ![c] = IF failed THEN "leaked" ELSE "closing"]
    /\ wfFailed' = [wfFailed EXCEPT ![c] = failed]
    /\ wfCloseCalls' = [wfCloseCalls EXCEPT ![c] = IF failed THEN @ ELSE @ + 1]

\* runWorkflow enters its finally block: `stagehand` is set (it is assigned
\* before init()), stagehand.close() is invoked and awaited
EnterFinally(c, failed) ==
    /\ wfPc' = [wfPc EXCEPT ![c] = "closing"]
    /\ wfFailed' = [wfFailed EXCEPT ![c] = failed]
    /\ wfCloseCalls' = [wfCloseCalls EXCEPT ![c] = @ + 1]

\* a client connects: the closure's otpResolver and workflowRunning are fresh
WfConnect(c) ==
    /\ wsState[c] = "CONNECTING"
    /\ wsState' = [wsState EXCEPT ![c] = "OPEN"]
    /\ UNCHANGED <<otpResolver, workflowRunning, wfPc, wfFailed, wfHandle,
                   otpVal, closeTimer, sent, wfCloseCalls>>
    /\ UNCHANGED <<regVars, wsVars, startVars>>

\* ws.on("message") with FORM_SUBMIT: dropped while workflowRunning, else the
\* workflow starts and runs up to `await stagehand.init()`
FormSubmit(c) ==
    /\ wsState[c] = "OPEN"
    /\ IF ~FormSubmitAccepted(c)
       THEN UNCHANGED <<workflowRunning, wfPc, wfHandle, wfFailed, otpVal, sent,
                        wfCloseCalls>>
       ELSE /\ workflowRunning' = [workflowRunning EXCEPT ![c] = TRUE]
            /\ wfPc' = [wfPc EXCEPT ![c] = "init"]
            /\ wfHandle' = [wfHandle EXCEPT ![c] = "initializing"]
            /\ wfFailed' = [wfFailed EXCEPT ![c] = FALSE]
            /\ otpVal' = [otpVal EXCEPT ![c] = "none"]
            /\ sent' = SentAfter(c, {"LOG"})
            /\ wfCloseCalls' = [wfCloseCalls EXCEPT ![c] = 0]
    /\ UNCHANGED <<wsState, otpResolver, closeTimer>>
    /\ UNCHANGED <<regVars, wsVars, startVars>>

\* the awaited step (init, goto, act) returned or threw; after the step before
\* the OTP, getOtp() stores the resolver and sends REQUEST_OTP
StepReturn(c, ok) ==
    /\ wfPc[c] \in AwaitedSteps
    /\ LET i == StepIndex(wfPc[c])
       IN  /\ wfHandle' = [wfHandle EXCEPT ![c] = IF wfPc[c] = "init" /\ ok THEN "live" ELSE @]
           /\ IF ~ok
              THEN /\ EnterFinally(c, TRUE)
                   /\ sent' = SentAfter(c, {"LOG"})
                   /\ UNCHANGED otpResolver
              ELSE IF i = Len(Steps)
                   THEN /\ EnterFinally(c, FALSE)
                        /\ sent' = SentAfter(c, {"LOG"})
                        /\ UNCHANGED otpResolver
                   ELSE /\ wfPc' = [wfPc EXCEPT ![c] = Steps[i + 1]]
                        /\ wfFailed' = wfFailed
                        /\ wfCloseCalls' = wfCloseCalls
                        /\ IF Steps[i + 1] = "otp_wait"
                           THEN /\ otpResolver' = [otpResolver EXCEPT ![c] = TRUE]
                                /\ sent' = SentAfter(c, {"LOG", "REQUEST_OTP"})
                           ELSE /\ sent' = SentAfter(c, {"LOG"})
                                /\ UNCHANGED otpResolver
    /\ UNCHANGED <<wsState, workflowRunning, otpVal, closeTimer>>
    /\ UNCHANGED <<regVars, wsVars, startVars>>

\* an OTP_SUBMIT handler without the otpResolver test
OtpSubmitAcceptedAlways(c) == TRUE

\* msg.type === "OTP_SUBMIT" && otpResolver
OtpSubmitAccepted(c) == otpResolver[c]

\* ws.on("message") with OTP_SUBMIT: ignored when otpResolver is null, else
\* the promise resolves with the value and runWorkflow types it
OtpSubmit(c, otp) ==
    /\ wsState[c] = "OPEN"
    /\ IF OtpSubmitAccepted(c)
       THEN /\ otpResolver' = [otpResolver EXCEPT ![c] = FALSE]
            /\ otpVal' = [otpVal EXCEPT ![c] = OtpResolved(otp)]
            /\ wfPc' = [wfPc EXCEPT ![c] = "act_otp"]
            /\ sent' = SentAfter(c, {"LOG"})
       ELSE UNCHANGED <<otpResolver, otpVal, wfPc, sent>>
    /\ UNCHANGED <<wsState, workflowRunning, wfFailed, wfHandle, closeTimer,
                   wfCloseCalls>>
    /\ UNCHANGED <<regVars, wsVars, startVars>>

\* the finally block's stagehand.close() returned or threw; the handler sends
\* SUBMISSION_RESULT, resets workflowRunning and arms the timer that closes the ws
WfCloseReturn(c, ok) ==
    /\ wfPc[c] = "closing"
    /\ wfHandle' = [wfHandle EXCEPT ![c] = "released"]
    /\ wfPc' = [wfPc EXCEPT ![c] = "idle"]
    /\ sent' = SentAfter(c, {IF ok /\ ~wfFailed[c] THEN "RESULT_SUCCESS" ELSE "RESULT_FAILURE"})
    /\ workflowRunning' = [workflowRunning EXCEPT ![c] = FALSE]
    /\ closeTimer' = [closeTimer EXCEPT ![c] = TRUE]
    /\ UNCHANGED <<wsState, otpResolver, wfFailed, otpVal, wfCloseCalls>>
    /\ UNCHANGED <<regVars, wsVars, startVars>>

\* setTimeout(() => ws.close(), 1000) fires
TimerClose(c) ==
    /\ closeTimer[c]
    /\ closeTimer' = [closeTimer EXCEPT ![c] = FALSE]
    /\ wsState' = [wsState EXCEPT ![c] = "CLOSED"]
    /\ UNCHANGED <<otpResolver, workflowRunning, wfPc, wfFailed, wfHandle, otpVal,
                   sent, wfCloseCalls>>
    /\ UNCHANGED <<regVars, wsVars, startVars>>

\* the client goes away: ws.on("close") only logs
Disconnect(c) ==
    /\ wsState[c] = "OPEN"
    /\ wsState' = [wsState EXCEPT ![c] = "CLOSED"]
    /\ UNCHANGED <<otpResolver, workflowRunning, wfPc, wfFailed, wfHandle,
                   otpVal, closeTimer, sent, wfCloseCalls>>
    /\ UNCHANGED <<regVars, wsVars, startVars>>

InitWf ==
    /\ wsState = [c \in Conns |-> "CONNECTING"]
    /\ otpResolver = [c \in Conns |-> FALSE]
    /\ workflowRunning = [c \in Conns |-> FALSE]
    /\ wfPc = [c \in Conns |-> "idle"]
    /\ wfFailed = [c \in Conns |-> FALSE]
    /\ wfHandle = [c \in Conns |-> "none"]
    /\ otpVal = [c \in Conns |-> "none"]
    /\ closeTimer = [c \in Conns |-> FALSE]
    /\ sent = [c \in Conns |-> {}]
    /\ wfCloseCalls = [c \in Conns |-> 0]

NextWf ==
    \/ \E c \in Conns : WfConnect(c)
    \/ \E c \in Conns : FormSubmit(c)
    \/ \E c \in Conns, ok \in BOOLEAN : StepReturn(c, ok)
    \/ \E c \in Conns, otp \in Otps : OtpSubmit(c, otp)
    \/ \E c \in Conns, ok \in BOOLEAN : WfCloseReturn(c, ok)
    \/ \E c \in Conns : TimerClose(c)
    \/ \E c \in Conns : Disconnect(c)

(* ------------------------- the HTTP workflow server -------------------- *)
\* the awaits of runWorkflow up to its return: stagehand.init(), page.goto,
\* the page.act calls that fill the form, the act / evaluate / key press calls
\* that set the date of birth, the click on Submit
StartSteps == <<"init", "goto", "fill", "date", "submit">>

StartStepIndex(name) == CHOOSE i \in 1..Len(StartSteps) : StartSteps[i] = name

\* a /start handler that resets the flag only after a workflow that succeeded
FlagAfterWorkflowUnlessFailed(failed) == failed

\* finally { isRunning = false }: whatever runWorkflow returned or threw
FlagAfterWorkflow(failed) == FALSE

\* POST /start: 409 while isRunning, 400 when a required field is missing,
\* else isRunning = true and runWorkflow runs up to `await stagehand.init()`
StartRequest(r, valid) ==
    /\ stPc[r] = "idle"
    /\ IF isRunning
       THEN /\ stResp' = [stResp EXCEPT ![r] = "409"]
            /\ UNCHANGED <<isRunning, stPc, stFailed>>
       ELSE IF ~valid
            THEN /\ stResp' = [stResp EXCEPT ![r] = "400"]
                 /\ UNCHANGED <<isRunning, stPc, stFailed>>
            ELSE /\ isRunning' = TRUE
                 /\ stPc' = [stPc EXCEPT ![r] = "init"]
                 /\ stFailed' = [stFailed EXCEPT ![r] = FALSE]
                 /\ stResp' = [stResp EXCEPT ![r] = "none"]
    /\ UNCHANGED <<regVars, wsVars, wfVars>>

\* runWorkflow: the awaited step returned (the next one begins, after the
\* last one the finally block) or threw (catch, then the finally block);
\* `stagehand` is set before init(), so the finally block always closes it
StartStepReturn(r, ok) ==
    /\ stPc[r] \in {StartSteps[i] : i \in 1..Len(StartSteps)}
    /\ LET i == StartStepIndex(stPc[r])
       IN  IF ok /\ i < Len(StartSteps)
           THEN /\ stPc' = [stPc EXCEPT ![r] = StartSteps[i + 1]]
                /\ UNCHANGED stFailed
           ELSE /\ stPc' = [stPc EXCEPT ![r] = "closing"]
                /\ stFailed' = [stFailed EXCEPT ![r] = ~ok]
    /\ UNCHANGED <<isRunning, stResp>>
    /\ UNCHANGED <<regVars, wsVars, wfVars>>

\* runWorkflow's finally: stagehand.close() returned or threw (caught);
\* runWorkflow returns {success}, /start answers 200 or 500 and its finally
\* block resets the flag
StartCloseReturn(r, ok) ==
    /\ stPc[r] = "closing"
    /\ stPc' = [stPc EXCEPT ![r] = "idle"]
    /\ stResp' = [stResp EXCEPT ![r] = IF stFailed[r] THEN "500" ELSE "200"]
    /\ isRunning' = FlagAfterWorkflow(stFailed[r])
    /\ UNCHANGED stFailed
    /\ UNCHANGED <<regVars, wsVars, wfVars>>

InitStart ==
    /\ isRunning = FALSE
    /\ stPc = [r \in Reqs |-> "idle"]
    /\ stFailed = [r \in Reqs |-> FALSE]
    /\ stResp = [r \in Reqs |-> "none"]

NextStart ==
    \/ \E r \in Reqs, valid \in BOOLEAN : StartRequest(r, valid)
    \/ \E r \in Reqs, ok \in BOOLEAN : StartStepReturn(r, ok)
    \/ \E r \in Reqs, ok \in BOOLEAN : StartCloseReturn(r, ok)

(* ------------------------- specification: SpecReg ---------------------- *)
InitRoutes ==
    /\ now = 0
    /\ sessions = [id \in Ids |-> NoSession]
    /\ order = <<>>
    /\ hstate = [h \in Handles |-> "unused"]
    /\ hsid = [h \in Handles |-> "none"]
    /\ closeCalls = [h \in Handles |-> 0]
    /\ pc = [r \in Reqs |-> "idle"]
    /\ kind = [r \in Reqs |-> "none"]
    /\ sid = [r \in Reqs |-> "none"]
    /\ hnd = [r \in Reqs |-> NoHandle]
    /\ shotH = [r \in Reqs |-> NoHandle]
    /\ rem = [r \in Reqs |-> 0]
    /\ resp = [r \in Reqs |-> "none"]
    /\ nfields = [r \in Reqs |-> 0]
    /\ results = [r \in Reqs |-> <<>>]
    /\ acted = [r \in Reqs |-> {}]
    /\ threw = [r \in Reqs |-> {}]
    /\ sweepPc = "idle" /\ sweepNow = 0 /\ cursor = 0
    /\ sweepId = "none" /\ sweepH = NoHandle
    /\ track = [id \in Ids |-> "none"]
    /\ caPc = "idle" /\ caIds = <<>> /\ caId = "none" /\ caH = NoHandle
    /\ caSnap = {} /\ caDirty = FALSE /\ caErr = FALSE
    /\ feed = [r \in Reqs |-> <<>>]
    /\ plan = NoPlan

\* no observer is subscribed to any session
InitReg == InitRoutes /\ watch = "null"

InitAll == InitReg /\ InitWs /\ InitWf /\ InitStart

\* an observer is subscribed to one of the sessions
InitWatched == InitRoutes /\ watch \in Ids /\ InitWs /\ InitWf /\ InitStart

RequestStep(r) ==
    \/ \E id \in Ids : InitRequest(r, id)
    \/ \E ok \in BOOLEAN : CreateCloseReturn(r, ok)
    \/ \E ok \in BOOLEAN : CreateInitReturn(r, ok)
    \/ \E id \in Ids, k \in {"execute", "submit"} : ExecuteRequest(r, id, k)
    \/ \E id \in Ids, n \in ShortForms : FillFormRequest(r, id, n)
    \/ \E ok \in BOOLEAN : ActReturn(r, ok)
    \/ SettleReturn(r)
    \/ \E ok \in BOOLEAN : ShotReturn(r, ok)
    \/ \E id \in Ids : CloseRequest(r, id)
    \/ \E ok \in BOOLEAN : CloseReturn(r, ok)

\* the routes alone: requests of two clients interleave at their awaits
NextReg == \E r \in Reqs : RequestStep(r)

SpecReg == InitAll /\ [][NextReg]_vars

(* ------------------------- specification: SpecSweep -------------------- *)
\* one client's requests, the clock and the setInterval sweep
NextSweep ==
    \/ RequestStep("r1")
    \/ SweepStart
    \/ \E ok \in BOOLEAN : SweepCloseReturn(ok)
    \/ Tick

SpecSweep == InitAll /\ [][NextSweep]_vars

(* ------------------------- specification: FairSpecIdle ----------------- *)
\* the sweep against one client that opens sessions, uses them and closes them
NextIdle ==
    \/ \E id \in Ids : InitRequest("r1", id)
    \/ \E ok \in BOOLEAN : CreateCloseReturn("r1", ok)
    \/ \E ok \in BOOLEAN : CreateInitReturn("r1", ok)
    \/ \E id \in Ids : ExecuteRequest("r1", id, "execute")
    \/ \E ok \in BOOLEAN : ActReturn("r1", ok)
    \/ SettleReturn("r1")
    \/ \E ok \in BOOLEAN : ShotReturn("r1", ok)
    \/ \E id \in Ids : CloseRequest("r1", id)
    \/ \E ok \in BOOLEAN : CloseReturn("r1", ok)
    \/ SweepStart
    \/ \E ok \in BOOLEAN : SweepCloseReturn(ok)
    \/ Tick

\* the sweep's scheduling: the interval timer keeps firing, release calls return
FairSpecIdle ==
    /\ InitAll /\ [][NextIdle]_vars
    /\ WF_vars(SweepStart)
    /\ WF_vars(\E ok \in BOOLEAN : SweepCloseReturn(ok))

(* ------------------------- specification: FairSpecHang ----------------- *)
\* the same client and sweep; only what the process itself schedules is sure
\* to happen: the interval timer fires and a pause (setTimeout) ends. Whether
\* an awaited call into the browser ever returns is up to the browser
FairSpecHang ==
    /\ InitAll /\ [][NextIdle]_vars
    /\ WF_vars(SweepStart)
    /\ WF_vars(SettleReturn("r1"))

(* ------------------------- specification: SpecFill -------------------- *)
\* one client opens sessions and fills forms of up to MaxFields fields, each
\* stagehand.act returning or throwing; a second client closes sessions
NextFill ==
    \/ \E id \in Ids : InitRequest("r1", id)
    \/ \E ok \in BOOLEAN : CreateCloseReturn("r1", ok)
    \/ \E ok \in BOOLEAN : CreateInitReturn("r1", ok)
    \/ \E id \in Ids, n \in 0..MaxFields : FillFormRequest("r1", id, n)
    \/ \E ok \in BOOLEAN : ActReturn("r1", ok)
    \/ SettleReturn("r1")
    \/ \E ok \in BOOLEAN : ShotReturn("r1", ok)
    \/ \E id \in Ids : CloseRequest("r2", id)
    \/ \E ok \in BOOLEAN : CloseReturn("r2", ok)

SpecFill == InitAll /\ [][NextFill]_vars

(* ------------------------- specification: SpecExec -------------------- *)
\* one client uses every route, one request after the other, with well-formed
\* and with malformed bodies, while an observer is subscribed to a session
NextExec ==
    \/ \E id \in Ids : InitRequest("r1", id)
    \/ \E ok \in BOOLEAN : CreateCloseReturn("r1", ok)
    \/ \E ok \in BOOLEAN : CreateInitReturn("r1", ok)
    \/ \E id \in Ids, k \in Routes : ExecuteRequest("r1", id, k)
    \/ \E id \in Ids, n \in 0..MaxFields : FillFormRequest("r1", id, n)
    \/ \E id \in Ids : ScreenshotRequest("r1", id)
    \/ \E k \in Routes \cup {"init", "fill-form", "screenshot", "close"},
          id \in Ids \cup {"none"} : InvalidRequest("r1", k, id)
    \/ \E ok \in BOOLEAN : ActReturn("r1", ok)
    \/ SettleReturn("r1")
    \/ \E ok \in BOOLEAN : ShotReturn("r1", ok)
    \/ \E id \in Ids : CloseRequest("r1", id)
    \/ \E ok \in BOOLEAN : CloseReturn("r1", ok)

SpecExec == InitWatched /\ [][NextExec]_vars

(* ------------------------- specification: SpecTwin -------------------- *)
\* the client in slot r is sent what the plan says: a request for the
\* session, or the return (plan.ok) / the throw of the call it awaits
PlannedStep(r, id) ==
    \/ plan.op = "init" /\ InitRequest(r, id)
    \/ plan.op \in Routes /\ ExecuteRequest(r, id, plan.op)
    \/ plan.op = "fill-form" /\ FillFormRequest(r, id, plan.n)
    \/ plan.op = "screenshot" /\ ScreenshotRequest(r, id)
    \/ plan.op = "close" /\ CloseRequest(r, id)
    \/ plan.op = "return" /\ CreateCloseReturn(r, plan.ok)
    \/ plan.op = "return" /\ CreateInitReturn(r, plan.ok)
    \/ plan.op = "return" /\ ActReturn(r, plan.ok)
    \/ plan.op = "return" /\ SettleReturn(r)
    \/ plan.op = "return" /\ ShotReturn(r, plan.ok)
    \/ plan.op = "return" /\ CloseReturn(r, plan.ok)

\* the session nobody is subscribed to
Unwatched == CHOOSE id \in Ids : id # watch

\* the state of a handle, whatever its number
HandleState(h) == IF h = NoHandle THEN "none" ELSE hstate[h]

\* the handles created for a session that are in a given state
HandlesOf(id, st) == {h \in Handles : hsid[h] = id /\ hstate[h] = st}

\* the two clients and their sessions are in the same state: same position,
\* same response, same report, same registry entry, same handle states
Sync ==
    /\ pc["r1"] = pc["r2"] /\ kind["r1"] = kind["r2"] /\ resp["r1"] = resp["r2"]
    /\ rem["r1"] = rem["r2"] /\ nfields["r1"] = nfields["r2"]
    /\ results["r1"] = results["r2"] /\ acted["r1"] = acted["r2"]
    /\ threw["r1"] = threw["r2"]
    /\ (sid["r1"] = watch) = (sid["r2"] = Unwatched)
    /\ (sid["r1"] = "none") = (sid["r2"] = "none")
    /\ HandleState(hnd["r1"]) = HandleState(hnd["r2"])
    /\ HandleState(shotH["r1"]) = HandleState(shotH["r2"])
    /\ Has(watch) = Has(Unwatched)
    /\ HandleState(sessions[watch].stagehand) = HandleState(sessions[Unwatched].stagehand)
    /\ sessions[watch].lastActivity = sessions[Unwatched].lastActivity
    /\ \A st \in {"initializing", "live", "closing", "released", "init_failed"} :
          Cardinality(HandlesOf(watch, st)) = Cardinality(HandlesOf(Unwatched, st))

\* what the two clients are sent next is decided
Choose(p) ==
    /\ Sync
    /\ plan' = p
    /\ UNCHANGED <<now, sessions, order, hstate, hsid, closeCalls, pc, kind, sid, hnd,
                   shotH, rem, resp, fillVars, sweepVars, track, caVars, obsVars,
                   wsVars, wfVars, startVars>>

\* one client works on the session an observer is subscribed to, the other on
\* the session nobody is subscribed to; whatever the first is sent, the
\* second is sent next
NextTwin ==
    \/ \E p \in Plans : Choose(p)
    \/ Sync /\ PlannedStep("r1", watch)
    \/ ~Sync /\ PlannedStep("r2", Unwatched)

SpecTwin == InitWatched /\ [][NextTwin]_vars

(* ------------------------- specification: SpecShutdown ---------------- *)
\* one client's requests and a closeAll() called at some moment
NextShutdown ==
    \/ RequestStep("r1")
    \/ CloseAllStart
    \/ \E ok \in BOOLEAN : CloseAllReturn(ok)

SpecShutdown == InitAll /\ [][NextShutdown]_vars

(* ------------------------- specification: SpecWs ----------------------- *)
SpecWs == InitAll /\ [][NextWs]_vars

(* ------------------------- specification: SpecStart -------------------- *)
\* two clients of the HTTP workflow server
SpecStart == InitAll /\ [][NextStart]_vars

(* ------------------------- specification: SpecWf ----------------------- *)
SpecWf == InitAll /\ [][NextWf]_vars

\* the workflow's scheduling: every awaited automation call returns or
\* throws, and an armed timer fires; what the client sends is up to the client
FairSpecWf ==
    /\ SpecWf
    /\ \A c \in Conns : WF_vars(\E ok \in BOOLEAN : StepReturn(c, ok))
    /\ \A c \in Conns : WF_vars(\E ok \in BOOLEAN : WfCloseReturn(c, ok))
    /\ \A c \in Conns : WF_vars(TimerClose(c))

(* ============================== claims ================================= *)

\* C1: at no reachable state are two automation-capability calls in progress
\* against the same session's handle.
C1_OneCallPerHandle == \A h \in Handles : InFlight(h) <= 1

\* a request of a workflow-advancing route arrives for the session
AdvancingArrives(r, id) ==
    \/ InitRequest(r, id)
    \/ \E k \in {"execute", "submit"} : ExecuteRequest(r, id, k)
    \/ \E n \in ShortForms : FillFormRequest(r, id, n)

\* C2: a workflow-advancing request that arrives for a session while another
\* one is in flight for it is answered at once with "already running".
C2_SecondRequestRejected ==
    [][\A r \in Reqs, id \in Ids :
          (Busy(id) /\ AdvancingArrives(r, id)) => resp'[r] = "already_running"]_vars

\* C3: once the connection of a workflow suspended on getOtp() is closed, the
\* pending promise is settled (with a cancellation), so the wait ends.
C3_PendingOtpCancelledOnClose ==
    \A c \in Conns :
        (wsState[c] = "CLOSED" /\ wfPc[c] = "otp_wait") ~> (wfPc[c] # "otp_wait")

\* C4: when the client that must supply the OTP disconnects while the request
\* is pending, the workflow eventually ends and its handle is released.
C4_HandleReleasedWhenCallerGone ==
    \A c \in Conns :
        (wsState[c] = "CLOSED" /\ wfPc[c] = "otp_wait")
            ~> (wfPc[c] = "idle" /\ wfHandle[c] = "released")

LiveFor(id) == {h \in Handles : hsid[h] = id /\ hstate[h] = "live"}

\* C5: every session identifier has at most one live handle (initialized, no
\* release requested), and every live handle is the one the registry holds
\* for its identifier (none is leaked).
C5_OneLiveHandlePerId ==
    /\ \A id \in Ids : Cardinality(LiveFor(id)) <= 1
    /\ \A h \in Handles : hstate[h] = "live" => sessions[hsid[h]].stagehand = h

\* C6: the release call stagehand.close() is invoked at most once on a handle.
C6_ReleasedAtMostOnce == \A h \in Handles : closeCalls[h] <= 1

\* C7: every message an observer receives was published for the session the
\* observer is bound to when it is delivered; an event for session B never
\* reaches an observer bound to session A.
C7_Isolation ==
    [][\A c \in Chans :
          Len(inbox'[c]) > Len(inbox[c])
              => inbox'[c][Len(inbox'[c])].sessionId = bound[c]]_vars

\* C7 witness: an observer bound to one session has received two of its
\* events, and an event published between them for another session went to
\* another observer only.
C7_Witness ==
    \E c \in Chans : \E d \in Chans \ {c} :
        /\ bound[c] # "null" /\ bound[d] # "null" /\ bound[d] # bound[c]
        /\ Len(inbox[c]) = 2 /\ Len(inbox[d]) = 1
        /\ inbox[c][1].seq < inbox[d][1].seq /\ inbox[d][1].seq < inbox[c][2].seq
        /\ \A i \in 1..2 : inbox[c][i].sessionId = bound[c]
        /\ inbox[d][1].sessionId = bound[d]

\* C8: when create(id) has been followed by close(id), with no other call on
\* id in between, the registry has no entry for id and get(id) returns absent.
C8_CreateThenClose ==
    \A id \in Ids : track[id] = "closed" => (~Has(id) /\ GetResult(sessions, id) = NoHandle)

\* C8 witness: create(id) then close(id) have both completed, the handle that
\* create registered has been released.
C8_Witness ==
    \E id \in Ids : track[id] = "closed" /\ \E h \in Handles : hsid[h] = id /\ hstate[h] = "released"

\* C9: a registered session idle for longer than maxAge is eventually removed
\* by the sweep, unless activity on it (get, create) ends the idleness first.
C9_StaleEventuallyClosed ==
    \A id \in Ids :
        (Has(id) /\ now - sessions[id].lastActivity > maxAge)
            ~> (~Has(id) \/ now - sessions[id].lastActivity <= maxAge)

\* C9 witness: the sweep is closing a session that has been idle for longer
\* than maxAge: the release call on its handle has been issued.
C9_Witness ==
    /\ sweepPc = "closing" /\ Has(sweepId)
    /\ sessions[sweepId].stagehand = sweepH /\ hstate[sweepH] = "closing"
    /\ now - sessions[sweepId].lastActivity > maxAge

\* the sweep invokes close(id) in this step
SweepBeginsClose(id) ==
    /\ SweepStart \/ \E ok \in BOOLEAN : SweepCloseReturn(ok)
    /\ sweepPc' = "closing" /\ sweepId' = id

\* C10: whenever the sweep closes a session, the time since that session's
\* last activity exceeds maxAge, however long ago the session was created.
C10_SweepSparesRecent ==
    [][\A id \in Ids :
          SweepBeginsClose(id) => now' - sessions'[id].lastActivity > maxAge]_vars

\* C10 witness: the sweep has passed over a session created longer ago than
\* maxAge whose last activity is recent, and is closing another one.
C10_Witness ==
    \E id \in Ids :
        /\ Has(id) /\ sweepPc = "closing" /\ sweepId # id
        /\ IndexOf(order, id) < cursor
        /\ sweepNow - sessions[id].createdAt > maxAge
        /\ sweepNow - sessions[id].lastActivity <= maxAge

\* a request has an automation call (act, goto, screenshot) or the pause
\* between two of its calls in progress on the session
Operating(id) == \E q \in Reqs : pc[q] \in {"acting", "shot", "settle"} /\ sid[q] = id

\* C11: the idle sweep never closes a session on which a request is
\* executing an automation operation, however long ago its last activity was.
C11_SweepSparesInFlight ==
    [][\A id \in Ids : SweepBeginsClose(id) => ~Operating(id)]_vars

\* C12: a message reaches an observer only in the step that publishes it, as
\* the newest event: binding (subscribe) delivers nothing, so an observer
\* that binds after N events receives none of those N.
C12_NoReplay ==
    [][\A c \in Chans :
          Len(inbox'[c]) > Len(inbox[c])
              => /\ Len(published') = Len(published) + 1
                 /\ inbox'[c] = Append(inbox[c], [sessionId |-> published'[Len(published')],
                                                  seq |-> Len(published')])]_vars

\* C12 witness: an observer bound to a session has received the third event
\* published for it and neither of the two published before.
C12_Witness ==
    \E c \in Chans :
        /\ bound[c] # "null" /\ Len(published) = 3
        /\ \A i \in 1..3 : published[i] = bound[c]
        /\ Len(inbox[c]) = 1 /\ inbox[c][1].seq = 3

\* the fill-form request in the slot sends its response in this step
FillFormAnswers(r) == kind[r] = "fill-form" /\ pc[r] = "shot" /\ pc'[r] = "idle"

\* the entries of a report that say a field failed
FailedEntries(res) == {i \in 1..Len(res) : ~res[i].success}

\* C13: the report a fill-form request returns has exactly one entry per input
\* field, in input order; its failed entries are those of the fields whose
\* stagehand.act threw, so the failure count equals the number of failing
\* fields; and stagehand.act was invoked for every field of the request.
C13_FillFormReport ==
    [][\A r \in Reqs :
          FillFormAnswers(r)
              => /\ resp'[r] = "ok"
                 /\ Len(results[r]) = nfields[r]
                 /\ \A i \in 1..Len(results[r]) : results[r][i].key = i
                 /\ FailedEntries(results[r]) = threw[r]
                 /\ Cardinality(FailedEntries(results[r])) = Cardinality(threw[r])
                 /\ acted[r] = 1..nfields[r]]_vars

\* C13 witness: a fill-form request is about to answer with a report of a
\* field that failed followed by a field that was filled.
C13_Witness ==
    \E r \in Reqs :
        /\ kind[r] = "fill-form" /\ pc[r] = "shot" /\ rem[r] = 0
        /\ nfields[r] = 2 /\ Len(results[r]) = 2
        /\ ~results[r][1].success /\ results[r][2].success
        /\ threw[r] = {1} /\ acted[r] = {1, 2}

\* the connection's workflow is awaiting the verification value
AwaitingOtp(c) == wfPc[c] = "otp_wait" /\ otpResolver[c]

\* C14: while a workflow awaits the verification value, the only automation
\* operation issued on its handle is the one that types the submitted value:
\* the workflow leaves the wait only through OTP_SUBMIT, for act_otp.
C14_OnlyOtpEntryWhileAwaiting ==
    [][\A c \in Conns :
          AwaitingOtp(c)
              => /\ wfHandle'[c] = wfHandle[c]
                 /\ \/ wfPc'[c] = "otp_wait" /\ otpResolver'[c]
                    \/ wfPc'[c] = "act_otp" /\ ~otpResolver'[c] /\ otpVal'[c] \in Otps]_vars

\* C14 witness: one workflow is awaiting its verification value on a live
\* handle while another connection's workflow is running an automation step.
C14_Witness ==
    \E c \in Conns : \E d \in Conns \ {c} :
        /\ AwaitingOtp(c) /\ wfHandle[c] = "live" /\ "REQUEST_OTP" \in sent[c]
        /\ wfPc[d] = "act_login" /\ wfHandle[d] = "live"

\* C15: an OTP_SUBMIT that arrives while the verification request is pending
\* resolves it with exactly the submitted value and clears it; the workflow
\* resumes at the act that types the code, and the value it types stays that
\* value until the act is over (a later OTP_SUBMIT changes nothing).
C15_OtpResolvesAndResumes ==
    [][\A c \in Conns :
          /\ \A otp \in Otps :
                (AwaitingOtp(c) /\ OtpSubmit(c, otp))
                    => /\ otpVal'[c] = otp
                       /\ ~otpResolver'[c]
                       /\ wfPc'[c] = "act_otp"
          /\ (wfPc[c] = "act_otp" /\ wfPc'[c] = "act_otp") => otpVal'[c] = otpVal[c]]_vars

\* C15 witness: the workflow has typed the second of the two values, the one
\* the client submitted, and has gone on to the step after it.
C15_Witness ==
    \E c \in Conns :
        /\ wfPc[c] = "act_continue2" /\ otpVal[c] = "654321"
        /\ ~otpResolver[c] /\ wfHandle[c] = "live"

\* C16: at most one verification request is pending per connection: getOtp()
\* stores a resolver only when none is pending, so a pending resolver is
\* never overwritten, and a pending resolver goes away only by being
\* resolved through OTP_SUBMIT.
C16_OnePendingOtp ==
    [][\A c \in Conns :
          /\ (wfPc[c] # "otp_wait" /\ wfPc'[c] = "otp_wait") => ~otpResolver[c]
          /\ (otpResolver[c] /\ ~otpResolver'[c])
                => (wfPc[c] = "otp_wait" /\ wfPc'[c] = "act_otp" /\ otpVal'[c] \in Otps)
          /\ otpResolver[c] => workflowRunning[c]]_vars

\* C16 witness: a connection whose first workflow succeeded (its verification
\* request was resolved) has the second workflow's request pending.
C16_Witness ==
    \E c \in Conns :
        /\ AwaitingOtp(c) /\ otpVal[c] = "none"
        /\ "RESULT_SUCCESS" \in sent[c]

\* the connection's workflow has reached succeeded or failed: runWorkflow has
\* returned or thrown and its handle has been released
Terminal(c) == wfPc[c] = "idle" /\ wfHandle[c] = "released"

\* C17: once a workflow has reached succeeded or failed, a later FORM_SUBMIT
\* on its connection starts no automation operation.
C17_NoOperationAfterTerminal ==
    [][\A c \in Conns : Terminal(c) => (wfPc'[c] = "idle" /\ wfHandle'[c] = "released")]_vars

\* C18: close(id) on an id that is not registered (unknown, or closed before)
\* raises no error, invokes no release call and leaves the registry as it is;
\* so close(id) twice in sequence ends in the registry state of close(id) once.
C18_CloseIdempotent ==
    [][\A r \in Reqs, id \in Ids :
          (~Has(id) /\ CloseRequest(r, id))
              => /\ resp'[r] = "ok" /\ pc'[r] = "idle"
                 /\ sessions' = sessions /\ order' = order
                 /\ closeCalls' = closeCalls /\ hstate' = hstate]_vars

\* C18 witness: create(id), close(id) and close(id) again have completed in
\* sequence: the id is not registered, its handle saw one release call, and
\* the second close was answered with success.
C18_Witness ==
    \E id \in Ids : \E h \in Handles : \E r \in Reqs :
        /\ track[id] = "reclosed" /\ ~Has(id)
        /\ hsid[h] = id /\ closeCalls[h] = 1
        /\ pc[r] = "idle" /\ resp[r] = "ok"

\* C19: when the release call of a close(id) throws, close() still returns
\* normally (/close answers success, closeAll goes on) and the entry of id is
\* removed; no handle whose release call is over is held by the registry.
C19_FailedReleaseStillRemoves ==
    [][/\ \A r \in Reqs :
             (pc[r] = "closing" /\ CloseReturn(r, FALSE))
                 => (resp'[r] = "ok" /\ sessions'[sid[r]] = NoSession)
       /\ (caPc = "closing" /\ CloseAllReturn(FALSE))
             => (sessions'[caId] = NoSession /\ caErr')
       /\ \A h \in Handles :
             hstate'[h] = "released" => \A id \in Ids : sessions'[id].stagehand # h]_vars

\* C19 witness: a release call has thrown during closeAll; the session it
\* belonged to is no longer registered and closeAll is closing the next one.
C19_Witness ==
    /\ caErr /\ caPc = "closing" /\ hstate[caH] = "closing"
    /\ \E h \in caSnap : h # caH /\ hstate[h] = "released" /\ ~Has(hsid[h])

\* C20: once closeAll() has completed, and no create() registered a session
\* since it was called, the registry is empty and every handle that was
\* registered when it was called has had its release call, whether or not a
\* release call threw on the way.
C20_CloseAllEmpties ==
    (caPc = "done" /\ ~caDirty)
        => /\ \A id \in Ids : ~Has(id)
           /\ order = <<>>
           /\ \A h \in caSnap : closeCalls[h] >= 1 /\ hstate[h] = "released"

\* C20 witness: closeAll() was called with two sessions registered, a release
\* call threw, and it has completed with the registry empty.
C20_Witness ==
    /\ caPc = "done" /\ ~caDirty /\ caErr
    /\ Cardinality(caSnap) = 2
    /\ \A id \in Ids : ~Has(id)

\* C21: when stagehand.init() throws during create(id), the caller gets the
\* failure (/init answers with an error), the registry is left as it was and
\* holds no entry for id, and the handle that failed to start is never registered.
C21_FailedCreateRegistersNothing ==
    [][/\ \A r \in Reqs :
             (pc[r] = "create_init" /\ CreateInitReturn(r, FALSE))
                 => /\ resp'[r] = "error" /\ pc'[r] = "idle"
                    /\ sessions' = sessions /\ order' = order
                    /\ sessions'[sid[r]] = NoSession
                    /\ GetResult(sessions', sid[r]) = NoHandle
       /\ \A h \in Handles :
             hstate'[h] = "init_failed" => \A id \in Ids : sessions'[id].stagehand # h]_vars

\* C21 witness: a create(id) over a registered session has failed to start:
\* the prior handle was released, the new one failed, the caller was told,
\* and id is not registered.
C21_Witness ==
    \E id \in Ids : \E h \in Handles : \E g \in Handles \ {h} :
        /\ hsid[h] = id /\ hstate[h] = "init_failed"
        /\ hsid[g] = id /\ hstate[g] = "released"
        /\ ~Has(id)
        /\ pc["r1"] = "idle" /\ resp["r1"] = "error"

\* C22: when an observer disconnects (close or error event), the broadcaster
\* drops it from `clients`, and an observer that is not in `clients` is
\* delivered nothing, whichever session it was bound to.
C22_DisconnectedGetsNothing ==
    [][\A c \in Chans :
          /\ (WsClose(c) \/ WsError(c)) => (~inMap'[c] /\ bound'[c] = "null")
          /\ ~inMap[c] => (inbox'[c] = inbox[c] \/ (inMap'[c] /\ inbox'[c] = <<>>))]_vars

\* C22 witness: an observer received the first two events of its session and
\* was dropped after an error event (its socket not yet closed); the third
\* event of that session reached another observer and not this one.
C22_Witness ==
    \E c \in Chans : \E d \in Chans \ {c} :
        /\ ~inMap[c] /\ ready[c] = "OPEN"
        /\ Len(published) = 3 /\ \A i \in 1..3 : published[i] = bound[d]
        /\ Len(inbox[c]) = 2 /\ inbox[c][2].seq = 2 /\ inbox[c][1].sessionId = bound[d]
        /\ Len(inbox[d]) = 3

\* C23: a subscribe for session B from a registered observer makes B its one
\* binding, whatever it was bound to before; from then on an event published
\* for any other session (the former A included) does not reach it.
C23_RebindOverwrites ==
    [][\A c \in Chans :
          /\ inMap'[c] => bound'[c] = asked'[c]
          /\ \A id \in Ids :
                Broadcast(id)
                    => IF asked[c] = id /\ inMap[c] /\ ready[c] = "OPEN"
                       THEN Len(inbox'[c]) = Len(inbox[c]) + 1
                       ELSE inbox'[c] = inbox[c]]_vars

\* C23 witness: an observer received the first event of session A, is bound
\* to B now, missed the second event of A and received the event of B.
C23_Witness ==
    \E c \in Chans :
        /\ Len(published) = 3 /\ published[1] = published[2] /\ published[3] # published[1]
        /\ inMap[c] /\ bound[c] = published[3] /\ asked[c] = published[3]
        /\ Len(inbox[c]) = 2
        /\ inbox[c][1] = [sessionId |-> published[1], seq |-> 1]
        /\ inbox[c][2] = [sessionId |-> published[3], seq |-> 3]

\* C24: a publish for a session delivers the event once to every observer
\* that is at that moment in `clients`, bound to the session and OPEN, and
\* changes nothing for every other observer.
C24_PublishDeliversOnce ==
    [][\A id \in Ids :
          Broadcast(id)
              => \A c \in Chans :
                    inbox'[c] = IF inMap[c] /\ bound[c] = id /\ ready[c] = "OPEN"
                                THEN inbox[c] \o <<[sessionId |-> id, seq |-> Len(published')]>>
                                ELSE inbox[c]]_vars

\* C24 witness: of two observers bound to one session, both received its
\* first event; the second event reached the one that is OPEN and not the
\* one whose socket is closing.
C24_Witness ==
    \E c \in Chans : \E d \in Chans \ {c} :
        /\ inMap[c] /\ inMap[d] /\ bound[c] # "null" /\ bound[d] = bound[c]
        /\ ready[c] = "OPEN" /\ ready[d] = "CLOSING"
        /\ Len(published) = 2 /\ published[1] = bound[c] /\ published[2] = bound[c]
        /\ Len(inbox[c]) = 2 /\ Len(inbox[d]) = 1 /\ inbox[d][1].seq = 1

\* C25: an observer receives the events of a session in the order in which
\* they were published: the publish positions of its messages increase.
C25_FifoPerObserver ==
    \A c \in Chans :
        \A i \in 1..Len(inbox[c]) : \A j \in 1..Len(inbox[c]) :
            i < j => inbox[c][i].seq < inbox[c][j].seq

\* C25 witness: an observer has received three events of its session, in the
\* order of their publication.
C25_Witness ==
    \E c \in Chans :
        /\ Len(inbox[c]) = 3 /\ bound[c] # "null"
        /\ \A i \in 1..3 : inbox[c][i] = [sessionId |-> bound[c], seq |-> i]

\* the level an event carries, "none" when it carries none
LevelOf(e) == IF "level" \in DOMAIN e THEN e.level ELSE "none"

IsErrorLog(e) == e.type = "log" /\ LevelOf(e) = "error"

\* the awaited automation call of a request on the watched session throws
ActThrows(r) ==
    /\ pc[r] = "acting" /\ kind[r] \in Routes \cup {"init"} /\ sid[r] = watch
    /\ ActReturn(r, FALSE)

ActCount(r) == Len(SelectSeq(feed[r], LAMBDA e : e.type = "act"))

\* C27: a request invokes the automation capability at most once (init,
\* execute, click, submit, input, analyze), a fill-form request exactly once
\* for each field it has reached, whether the calls returned or threw.
C27_NoRetry ==
    \A r \in Reqs :
        (pc[r] # "idle" /\ sid[r] = watch)
            => IF kind[r] = "fill-form"
               THEN ActCount(r) = Cardinality(acted[r]) /\ ActCount(r) <= nfields[r]
               ELSE ActCount(r) <= 1

\* C27 witness: a fill-form request whose first field threw has invoked the
\* capability for its second field, twice in all.
C27_Witness ==
    \E r \in Reqs :
        /\ pc[r] = "acting" /\ kind[r] = "fill-form" /\ sid[r] = watch
        /\ threw[r] = {1} /\ acted[r] = {1, 2} /\ ActCount(r) = 2

\* a request with a malformed body arrives in the slot
Malformed(r) ==
    \E k \in Routes \cup {"init", "fill-form", "screenshot", "close"},
       id \in Ids \cup {"none"} : InvalidRequest(r, k, id)

\* C28: a request whose body does not match its schema is answered with a
\* validation error at once: no session is created, looked up, touched or
\* operated on, and no event is published.
C28_MalformedFailsFast ==
    [][\A r \in Reqs :
          Malformed(r)
              => /\ resp'[r] = "invalid" /\ pc'[r] = "idle"
                 /\ sessions' = sessions /\ order' = order
                 /\ hstate' = hstate /\ closeCalls' = closeCalls
                 /\ feed'[r] = <<>>]_vars

\* a request of a route that operates on a session arrives for the id
OperationArrives(r, id) ==
    \/ \E k \in Routes : ExecuteRequest(r, id, k)
    \/ \E n \in 0..MaxFields : FillFormRequest(r, id, n)

\* C29: execute, fill-form, click, submit, input and analyze on an id with no
\* session answer session-not-found at once; screenshot on such an id gets no
\* handle and answers session-not-found when its capture is over; none of
\* them invokes the automation capability or changes the registry.
C29_UnknownSessionReported ==
    [][\A r \in Reqs :
          /\ \A id \in Ids :
                (~Has(id) /\ OperationArrives(r, id))
                    => /\ resp'[r] = "not_found" /\ pc'[r] = "idle"
                       /\ sessions' = sessions /\ order' = order /\ hstate' = hstate
                       /\ feed'[r] = <<>>
          /\ \A id \in Ids :
                (~Has(id) /\ ScreenshotRequest(r, id))
                    => /\ shotH'[r] = NoHandle /\ pc'[r] = "shot"
                       /\ sessions' = sessions /\ order' = order /\ hstate' = hstate
          /\ \A ok \in BOOLEAN :
                (kind[r] = "screenshot" /\ shotH[r] = NoHandle /\ ShotReturn(r, ok))
                    => /\ resp'[r] = "not_found" /\ pc'[r] = "idle"
                       /\ sessions' = sessions /\ order' = order /\ hstate' = hstate
                       /\ feed'[r] = <<>>]_vars

\* C29 witness: a screenshot request for a session that was opened and closed
\* found no session; its answer is pending.
C29_Witness ==
    \E r \in Reqs, h \in Handles :
        /\ pc[r] = "shot" /\ kind[r] = "screenshot" /\ shotH[r] = NoHandle
        /\ sid[r] = watch /\ ~Has(sid[r])
        /\ hsid[h] = sid[r] /\ hstate[h] = "released"

\* the events follow the order: an intent log or status, then the automation
\* call, then a screenshot, then a completion log
InOrder(f) ==
    \E i, a, s, c \in 1..Len(f) :
        /\ i < a /\ a < s /\ s < c
        /\ f[i].type \in {"log", "status"}
        /\ f[a].type = "act"
        /\ f[s].type = "screenshot"
        /\ f[c].type = "log"
        /\ \A j \in (c + 1)..Len(f) : f[j].type # "screenshot"

\* a request of a single-action executor operation on the watched session
\* answers success, its page.screenshot() having returned
OperationSucceeds(r) ==
    /\ pc[r] = "shot" /\ kind[r] \in Routes \cup {"init"}
    /\ sid[r] = watch /\ shotH[r] # NoHandle
    /\ ShotReturn(r, TRUE)
    /\ pc'[r] = "idle" /\ resp'[r] = "ok"

\* C30: when an executor operation succeeds, what it published before its
\* response is, in this order, an intent log or status before the automation
\* call, a screenshot after the call, and a completion log after the screenshot.
C30_UniformEventOrder ==
    [][\A r \in Reqs : OperationSucceeds(r) => InOrder(feed'[r])]_vars

\* the fields of the fill-form request whose stagehand.act was invoked and has
\* neither returned nor thrown yet
InProgress(r) ==
    {i \in acted[r] : \A j \in 1..Len(results[r]) : results[r][j].key # i}

\* C31: a fill-form request has at most one field's automation call in
\* progress, the calls were started in input order, and the call in progress
\* is that of the field after the ones already completed or failed.
C31_FieldsSequential ==
    \A r \in Reqs :
        kind[r] = "fill-form"
            => /\ Cardinality(InProgress(r)) <= 1
               /\ acted[r] = 1..Cardinality(acted[r])
               /\ InProgress(r) \subseteq {Len(results[r]) + 1}
               /\ (pc[r] = "acting") = (InProgress(r) # {})

\* C31 witness: the call of the second field is in progress after the first
\* field's call threw.
C31_Witness ==
    \E r \in Reqs :
        /\ kind[r] = "fill-form" /\ pc[r] = "acting"
        /\ Len(results[r]) = 1 /\ ~results[r][1].success
        /\ InProgress(r) = {2}

\* C32: a close(id) that has begun eventually completes, whether or not the
\* handle's release call ever returns.
C32_CloseBounded ==
    \A r \in Reqs : (pc[r] = "closing") ~> (pc[r] # "closing")

\* C33: two clients are sent the same requests and their browser calls end
\* the same way, one on a session with an observer, one on a session without:
\* whenever the second has caught up with the first, both have the same
\* response and position and their sessions are in the same state; and what
\* is published for the session without observer reaches nobody.
C33_ObserversDoNotMatter ==
    [][(~Sync => Sync') /\ feed'["r2"] = <<>>]_vars

\* C33 witness: both clients were answered success for a screenshot; the
\* observer of the first one's session got the screenshot event.
C33_Witness ==
    /\ Sync /\ pc["r1"] = "idle" /\ resp["r1"] = "ok" /\ resp["r2"] = "ok"
    /\ plan.op = "return" /\ Has(watch) /\ Has(Unwatched)
    /\ feed["r1"] = <<[type |-> "screenshot", message |-> "-"]>>
    /\ feed["r2"] = <<>>

\* C34: when a close(id) that awaited the release of an older handle
\* completes, a newer session registered under the id meanwhile stays
\* registered.
C34_CloseSparesNewerSession ==
    [][\A r \in Reqs :
          (/\ pc[r] = "closing" /\ pc'[r] # "closing"
           /\ Has(sid[r]) /\ sessions[sid[r]].stagehand # hnd[r])
              => sessions'[sid[r]] = sessions[sid[r]]]_vars

\* a release of the handle has begun: stagehand.close() was invoked on it
ReleaseBegun(h) == closeCalls[h] > 0

\* C35: the registry never holds, under any id, a handle whose release has
\* begun, so get(id) never returns one.
C35_GetNeverReturnsReleasing ==
    \A id \in Ids :
        GetResult(sessions, id) # NoHandle => ~ReleaseBegun(GetResult(sessions, id))

\* an automation call (goto, act, screenshot) of the request starts in this step
CallStarts(r) ==
    \/ pc[r] # "acting" /\ pc'[r] = "acting"
    \/ pc[r] # "shot" /\ pc'[r] = "shot" /\ shotH'[r] # NoHandle
    \/ pc[r] = "acting" /\ pc'[r] = "acting" /\ acted'[r] # acted[r]

\* the handle the call that starts is made on
CallHandle(r) == IF pc'[r] = "shot" THEN shotH'[r] ELSE hnd'[r]

\* C36: no automation call is started on a handle whose release was requested.
C36_NoCallAfterRelease ==
    [][\A r \in Reqs : CallStarts(r) => ~ReleaseBegun(CallHandle(r))]_vars

\* the flag is true exactly while one workflow is in flight
FlagExact ==
    /\ isRunning = (\E r \in Reqs : stPc[r] # "idle")
    /\ Cardinality({r \in Reqs : stPc[r] # "idle"}) <= 1

\* C37: isRunning is true exactly while a workflow is in flight; a /start
\* rejected with 400 or 409 leaves it unchanged; it is set only by a request
\* that passed the validation; when a workflow ends, succeeded or failed, it
\* is reset; and a /start with all fields that arrives while no workflow is
\* in flight is accepted.
C37_IsRunningExact ==
    [][/\ FlagExact /\ FlagExact'
       /\ \A r \in Reqs, valid \in BOOLEAN :
             StartRequest(r, valid)
                 => /\ stResp'[r] \in {"400", "409"} => isRunning' = isRunning
                    /\ (isRunning' /\ ~isRunning) => valid
                    /\ (valid /\ ~isRunning) => (stPc'[r] = "init" /\ isRunning')
       /\ \A r \in Reqs, ok \in BOOLEAN :
             StartCloseReturn(r, ok) => ~isRunning']_vars

\* C37 witness: after a workflow that failed, a new /start was accepted.
C37_Witness ==
    /\ stResp["r1"] = "500" /\ stPc["r1"] = "idle"
    /\ stPc["r2"] = "goto" /\ isRunning

\* runWorkflow is at one of its awaited steps
WfRunning(c) == wfPc[c] \in {Steps[i] : i \in 1..Len(Steps)}

\* C38: while a run of runWorkflow is at one of its steps its handle's close
\* was not invoked; once the run left its steps, by success or by a throw of
\* any step, init included, close was invoked exactly once; and when the run
\* is over the handle is released.
C38_CloseOnceAfterLastAction ==
    \A c \in Conns :
        /\ WfRunning(c) => wfCloseCalls[c] = 0
        /\ (~WfRunning(c) /\ wfHandle[c] # "none") => wfCloseCalls[c] = 1
        /\ (~WfRunning(c) /\ wfPc[c] # "closing" /\ wfHandle[c] # "none")
              => wfHandle[c] = "released"

\* C38 witness: stagehand.init() threw and the finally block has invoked
\* close on the handle that was constructed.
C38_Witness ==
    \E c \in Conns :
        /\ wfPc[c] = "closing" /\ wfHandle[c] = "initializing" /\ wfFailed[c]
        /\ wfCloseCalls[c] = 1

\* C39: a resolver is stored exactly while the workflow awaits the value it
\* asked for (from the moment REQUEST_OTP is sent until an OTP_SUBMIT is
\* processed), so the first OTP_SUBMIT after the request resumes the
\* workflow; an OTP_SUBMIT that finds no resolver changes nothing of the
\* connection's workflow.
C39_ResolverWhilePending ==
    [][\A c \in Conns :
          /\ otpResolver[c] = (wfPc[c] = "otp_wait")
          /\ otpResolver'[c] = (wfPc'[c] = "otp_wait")
          /\ (wfPc[c] # "otp_wait" /\ wfPc'[c] = "otp_wait" /\ wsState[c] = "OPEN")
                => "REQUEST_OTP" \in sent'[c]
          /\ \A otp \in Otps :
                OtpSubmit(c, otp)
                    => IF wfPc[c] = "otp_wait"
                       THEN wfPc'[c] = "act_otp" /\ otpVal'[c] = otp
                       ELSE UNCHANGED <<wfPc, otpVal, otpResolver, wfHandle, wfFailed,
                                        workflowRunning, sent, wfCloseCalls>>]_vars

\* C39 witness: the first OTP_SUBMIT after the request was taken: the
\* workflow types the first of the two values.
C39_Witness ==
    \E c \in Conns :
        /\ wfPc[c] = "act_otp" /\ otpVal[c] = "123456" /\ ~otpResolver[c]
        /\ "REQUEST_OTP" \in sent[c] /\ wsState[c] = "OPEN"

\* C40: /screenshot answers "Session not found" exactly when the registry had
\* no entry for the id; with an entry it answers with the screenshot, or
\* with another error when the capture failed.
C40_NotFoundOnlyWhenAbsent ==
    [][\A r \in Reqs, ok \in BOOLEAN :
          (kind[r] = "screenshot" /\ ShotReturn(r, ok))
              => /\ (resp'[r] = "not_found") = (shotH[r] = NoHandle)
                 /\ (shotH[r] # NoHandle /\ ok) => resp'[r] = "ok"]_vars

====
